---- MODULE Spec2Model ----
(***************************************************************************)
(* The Excel -> SensorThings transforms of the repository:                 *)
(*   "customized" : SensorThingsTransformer (excel_to_sta_customized.py)   *)
(*   "final"      : excel_to_sensorthings   (final_version_6things.py)     *)
(*   "normalized" : excel_to_sensorthings and construct_nested_structure   *)
(*                  (without enum/sensorthings_excel_converter.py)         *)
(*                                                                         *)
(* A string whose characters the code inspects (ids, keys, column headers, *)
(* sheet names) is a sequence of one-character strings.  Literal text that *)
(* is only ever copied (names, descriptions, URIs) is kept as one element. *)
(* A Python dict is a sequence of [key, val] entries in insertion order.   *)
(***************************************************************************)
EXTENDS Integers, Sequences, FiniteSets, TLC

VARIABLES
  variant,              \* which program runs: "customized" or "final"
  legend_df,            \* the LEGENDE sheet of the workbook, or NoSheet
  sheets_read,          \* the sheets iterated so far (workbook order)
  rows_read,            \* the rows (and cells) read so far, in order
  pc,                   \* "sheets" | "rows" | "cols" | "done" | "failed"
  sheet,                \* locals of the sheet loop
  row,                  \* locals of the row loop
  things, locations, observed_properties, sensors, datastreams,
  observations,
  created,              \* history: registry insertions <<kind, key>> in order
  obs_src,              \* history: per observation, the call that made it
  result,               \* the returned document, or None
  excel_data,           \* the workbook of per-entity tables (normalized shape)
  first_output          \* the document of an earlier run on the same workbook

vars == <<excel_data, first_output, variant, legend_df, sheets_read, rows_read, pc, sheet, row,
          things, locations, observed_properties, sensors, datastreams,
          observations, created, obs_src, result>>

(***************************************************************************)
(* Bounds of the explored inputs.                                          *)
(***************************************************************************)
MaxSheets == 2
MaxRows == 2

(***************************************************************************)
(* Python str operations.                                                  *)
(***************************************************************************)
IsAt(s, p, i) ==
  /\ i + Len(p) - 1 <= Len(s)
  /\ SubSeq(s, i, i + Len(p) - 1) = p

startswith(s, p) == IsAt(s, p, 1)

contains(s, p) == \E i \in 1..(Len(s) + 1) : IsAt(s, p, i)

\* split that leaves the separator at the end of each part it closes
RECURSIVE split_keeping_separator(_, _)
split_keeping_separator(s, sep) ==
  IF \A i \in 1..Len(s) : s[i] # sep
  THEN <<s>>
  ELSE LET i == CHOOSE k \in 1..Len(s) :
                  s[k] = sep /\ \A j \in 1..(k - 1) : s[j] # sep
       IN  <<SubSeq(s, 1, i)>> \o split_keeping_separator(SubSeq(s, i + 1, Len(s)), sep)

RECURSIVE split(_, _)
split(s, sep) ==
  IF \A i \in 1..Len(s) : s[i] # sep
  THEN <<s>>
  ELSE LET i == CHOOSE k \in 1..Len(s) :
                  s[k] = sep /\ \A j \in 1..(k - 1) : s[j] # sep
       IN  <<SubSeq(s, 1, i - 1)>> \o split(SubSeq(s, i + 1, Len(s)), sep)

RECURSIVE replace(_, _, _)
replace(s, old, new) ==
  IF s = <<>> THEN <<>>
  ELSE IF IsAt(s, old, 1)
       THEN new \o replace(SubSeq(s, Len(old) + 1, Len(s)), old, new)
       ELSE <<Head(s)>> \o replace(Tail(s), old, new)

(***************************************************************************)
(* Python dict operations (insertion ordered).                             *)
(***************************************************************************)
dict_has(d, k) == \E i \in 1..Len(d) : d[i].key = k

dict_get(d, k) == d[CHOOSE i \in 1..Len(d) : d[i].key = k].val

dict_set(d, k, v) ==
  IF dict_has(d, k)
  THEN [i \in 1..Len(d) |-> IF d[i].key = k THEN [key |-> k, val |-> v] ELSE d[i]]
  ELSE Append(d, [key |-> k, val |-> v])

(***************************************************************************)
(* Cell values of a data frame.                                            *)
(***************************************************************************)
None == [kind |-> "None"]
NaN == [kind |-> "nan"]
Str(s) == [kind |-> "str", s |-> s]
Float(tenths) == [kind |-> "float", tenths |-> tenths]
Timestamp(k) == [kind |-> "Timestamp", t |-> k]


\* a test for None instead of pd.isna: a NaN cell is not recognised
isna_none_only(v) == v.kind = "None"

isna(v) == v.kind = "nan"

\* str(x): a missing cell prints as "nan"
str(v) ==
  CASE v.kind = "str" -> v.s
    [] v.kind = "nan" -> <<"n", "a", "n">>

\* float(x): numbers convert, text that is no number raises ValueError
IsNumeric(v) ==
  \/ v.kind = "float"
  \/ v.kind = "str" /\ v.s # <<>> /\ \A i \in 1..Len(v.s) : v.s[i] \in {"0", "1", "2", "3", "4", "5", "6", "7", "8", "9"}

DigitVal(c) ==
  CASE c = "0" -> 0 [] c = "1" -> 1 [] c = "2" -> 2 [] c = "3" -> 3 [] c = "4" -> 4
    [] c = "5" -> 5 [] c = "6" -> 6 [] c = "7" -> 7 [] c = "8" -> 8 [] c = "9" -> 9

DigitChar(n) == <<"0", "1", "2", "3", "4", "5", "6", "7", "8", "9">>[n + 1]

RECURSIVE ParseInt(_)
ParseInt(s) == IF s = <<>> THEN 0 ELSE 10 * ParseInt(SubSeq(s, 1, Len(s) - 1)) + DigitVal(s[Len(s)])

float(v) ==
  CASE v.kind = "float" -> v
    [] v.kind = "str" -> Float(10 * ParseInt(v.s))

\* the timestamp handed on as it was read, not converted
isoformat_skipped(ts) == ts

\* timestamp.isoformat() for datetime / pd.Timestamp values, else unchanged
isoformat(ts) ==
  IF ts.kind = "Timestamp"
  THEN Str(<<"2024-05-01T0", DigitChar(ts.t), ":00:00">>)
  ELSE ts

(***************************************************************************)
(* Static tables of the programs.                                          *)
(***************************************************************************)
unit_mapping ==
  <<"T", "E", "M", "P">> :> [name |-> <<"Degree Celsius">>, symbol |-> <<"°C">>, definition |-> <<"ucum:Cel">>] @@
  <<"W", "I", "N", "D", "R">> :> [name |-> <<"Wind Direction">>, symbol |-> <<"°">>, definition |-> <<"ucum:deg">>] @@
  <<"G", "L", "O", "B", "A", "L">> :> [name |-> <<"Global Radiation">>, symbol |-> <<"W/m²">>, definition |-> <<"ucum:W/m2">>] @@
  <<"N", "I", "E", "D", "E", "R">> :> [name |-> <<"Precipitation">>, symbol |-> <<"mm">>, definition |-> <<"ucum:mm">>] @@
  <<"T", "E", "M", "P", "H", "U", "M", "U", "S">> :> [name |-> <<"Temperature Humus">>, symbol |-> <<"°C">>, definition |-> <<"ucum:Cel">>] @@
  <<"T", "E", "M", "P", "1", "0", "0">> :> [name |-> <<"Temperature 100cm">>, symbol |-> <<"°C">>, definition |-> <<"ucum:Cel">>] @@
  <<"T", "E", "M", "P", "2", "0">> :> [name |-> <<"Temperature 20cm">>, symbol |-> <<"°C">>, definition |-> <<"ucum:Cel">>] @@
  <<"T", "E", "M", "P", "2", "0", "0">> :> [name |-> <<"Temperature 200cm">>, symbol |-> <<"°C">>, definition |-> <<"ucum:Cel">>] @@
  <<"T", "E", "M", "P", "3", "5">> :> [name |-> <<"Temperature 35cm">>, symbol |-> <<"°C">>, definition |-> <<"ucum:Cel">>] @@
  <<"T", "E", "M", "P", "5">> :> [name |-> <<"Temperature 5cm">>, symbol |-> <<"°C">>, definition |-> <<"ucum:Cel">>] @@
  <<"T", "E", "M", "P", "5", "0">> :> [name |-> <<"Temperature 50cm">>, symbol |-> <<"°C">>, definition |-> <<"ucum:Cel">>] @@
  <<"T", "D", "R", "2", "0", "_", "1">> :> [name |-> <<"Soil Moisture 20cm (1)">>, symbol |-> <<"%">>, definition |-> <<"ucum:%">>] @@
  <<"T", "D", "R", "2", "0", "_", "2">> :> [name |-> <<"Soil Moisture 20cm (2)">>, symbol |-> <<"%">>, definition |-> <<"ucum:%">>] @@
  <<"T", "D", "R", "5", "0", "_", "1">> :> [name |-> <<"Soil Moisture 50cm (1)">>, symbol |-> <<"%">>, definition |-> <<"ucum:%">>] @@
  <<"T", "D", "R", "5", "0", "_", "2">> :> [name |-> <<"Soil Moisture 50cm (2)">>, symbol |-> <<"%">>, definition |-> <<"ucum:%">>] @@
  <<"T", "D", "R", "1", "0", "0", "_", "1">> :> [name |-> <<"Soil Moisture 100cm (1)">>, symbol |-> <<"%">>, definition |-> <<"ucum:%">>] @@
  <<"T", "D", "R", "1", "0", "0", "_", "2">> :> [name |-> <<"Soil Moisture 100cm (2)">>, symbol |-> <<"%">>, definition |-> <<"ucum:%">>] @@
  <<"%", "n", "F", "K">> :> [name |-> <<"Available Field Capacity">>, symbol |-> <<"%">>, definition |-> <<"ucum:%">>] @@
  <<"T", "E", "N", "S", "2", "0", "_", "1">> :> [name |-> <<"Soil Tension 20cm (1)">>, symbol |-> <<"kPa">>, definition |-> <<"ucum:kPa">>] @@
  <<"T", "E", "N", "S", "2", "0", "_", "2">> :> [name |-> <<"Soil Tension 20cm (2)">>, symbol |-> <<"kPa">>, definition |-> <<"ucum:kPa">>] @@
  <<"T", "E", "N", "S", "5", "0", "_", "1">> :> [name |-> <<"Soil Tension 50cm (1)">>, symbol |-> <<"kPa">>, definition |-> <<"ucum:kPa">>] @@
  <<"T", "E", "N", "S", "5", "0", "_", "2">> :> [name |-> <<"Soil Tension 50cm (2)">>, symbol |-> <<"kPa">>, definition |-> <<"ucum:kPa">>] @@
  <<"T", "E", "N", "S", "1", "0", "0", "_", "1">> :> [name |-> <<"Soil Tension 100cm (1)">>, symbol |-> <<"kPa">>, definition |-> <<"ucum:kPa">>] @@
  <<"T", "E", "N", "S", "1", "0", "0", "_", "2">> :> [name |-> <<"Soil Tension 100cm (2)">>, symbol |-> <<"kPa">>, definition |-> <<"ucum:kPa">>]

\* unit_mapping.get(property_name, {}).get("name", property_name)
friendly_name(property_name) ==
  IF property_name \in DOMAIN unit_mapping
  THEN unit_mapping[property_name].name
  ELSE property_name

\* unit_mapping.get(property_name, {"name": "Unknown", "symbol": "", "definition": "ucum:"})

\* the fallback unit named after the code instead of "Unknown"
unit_of_measurement_code_named(property_name) ==
  IF property_name \in DOMAIN unit_mapping
  THEN unit_mapping[property_name]
  ELSE [name |-> property_name, symbol |-> <<>>, definition |-> <<"ucum:">>]

\* the lookup that never finds the code: every code gets the fallback
unit_of_measurement_not_found(property_name) ==
  [name |-> <<"Unknown">>, symbol |-> <<>>, definition |-> <<"ucum:">>]

unit_of_measurement(property_name) ==
  IF property_name \in DOMAIN unit_mapping
  THEN unit_mapping[property_name]
  ELSE [name |-> <<"Unknown">>, symbol |-> <<>>, definition |-> <<"ucum:">>]

MEASUREMENT == <<"http://www.opengis.net/def/observationType/OGC-OM/2.0/OM_Measurement">>

LEGENDE == <<"L", "E", "G", "E", "N", "D", "E">>
FREIFLAECHE == <<"F", "R", "E", "I", "F", "L", "Ä", "C", "H", "E">>
BODEN_LUFTTEMP == <<"B", "o", "d", "e", "n", "+", "L", "u", "f", "t", "t", "e", "m", "p", "_", "B", "e", "s", "t", "a", "n", "d", " ", "C", "°">>
ID_MS == <<"I", "D", "_", "M", "S">>
DATUM_ZEIT == <<"D", "A", "T", "U", "M", "_", "Z", "E", "I", "T">>
DATUMZEIT == <<"D", "A", "T", "U", "M", "Z", "E", "I", "T">>
DATUM == <<"D", "A", "T", "U", "M">>

\* the category of a sheet
category_of(sheet_name) ==
  IF sheet_name = FREIFLAECHE THEN <<"Weather Station">>
  ELSE IF contains(sheet_name, <<"B", "o", "d", "e", "n">>)
          \/ contains(sheet_name, <<"T", "e", "n", "s", "i", "o", "n">>)
       THEN <<"Soil Sensor">>
       ELSE <<"Generic Sensor">>

\* the timestamp column of a sheet
timestamp_column_of(sheet_name) ==
  IF sheet_name = FREIFLAECHE THEN DATUM_ZEIT
  ELSE IF sheet_name = BODEN_LUFTTEMP THEN DATUMZEIT
       ELSE DATUM

(***************************************************************************)
(* The entity stores.  Store is the registries and lists as one record, so *)
(* that a handler is the composition of the calls it makes, in code order. *)
(***************************************************************************)
Store ==
  [things |-> things, locations |-> locations,
   observed_properties |-> observed_properties, sensors |-> sensors,
   datastreams |-> datastreams, observations |-> observations,
   created |-> created, obs_src |-> obs_src]

SetStore(st) ==
  /\ things' = st.things
  /\ locations' = st.locations
  /\ observed_properties' = st.observed_properties
  /\ sensors' = st.sensors
  /\ datastreams' = st.datastreams
  /\ observations' = st.observations
  /\ created' = st.created
  /\ obs_src' = st.obs_src

Created(kind, key, owner, code) ==
  [kind |-> kind, key |-> key, owner |-> owner, code |-> code]

(***************************************************************************)
(* SensorThingsTransformer (excel_to_sta_customized.py).                   *)
(***************************************************************************)

\* create_thing without the membership test: a later row overwrites the entry
create_thing_overwrite(st, id_ms, category) ==
  [st EXCEPT
     !.things = dict_set(@, id_ms,
        [iot_id |-> <<"t", "h", "i", "n", "g", "_">> \o id_ms,
         name |-> <<"Measurement Station ">> \o id_ms,
         description |-> category \o <<" measurement station with ID ">> \o id_ms,
         properties |-> [id_ms |-> id_ms, category |-> category]])]

\* create_thing that brings the category of a registered Thing up to date
create_thing_latest_category(st, id_ms, category) ==
  IF ~dict_has(st.things, id_ms)
  THEN [st EXCEPT
         !.things = dict_set(@, id_ms,
            [iot_id |-> <<"t", "h", "i", "n", "g", "_">> \o id_ms,
             name |-> <<"Measurement Station ">> \o id_ms,
             description |-> category \o <<" measurement station with ID ">> \o id_ms,
             properties |-> [id_ms |-> id_ms, category |-> category]]),
         !.created = Append(@, Created("Thing", id_ms, <<>>, <<>>))]
  ELSE [st EXCEPT
         !.things = dict_set(@, id_ms,
            [dict_get(st.things, id_ms) EXCEPT !.properties.category = category])]

create_thing(st, id_ms, category) ==
  IF ~dict_has(st.things, id_ms)
  THEN [st EXCEPT
         !.things = dict_set(@, id_ms,
            [iot_id |-> <<"t", "h", "i", "n", "g", "_">> \o id_ms,
             name |-> <<"Measurement Station ">> \o id_ms,
             description |-> category \o <<" measurement station with ID ">> \o id_ms,
             properties |-> [id_ms |-> id_ms, category |-> category]]),
         !.created = Append(@, Created("Thing", id_ms, <<>>, <<>>))]
  ELSE st

create_location(st, thing_id) ==
  IF ~dict_has(st.locations, thing_id)
  THEN [st EXCEPT
         !.locations = dict_set(@, thing_id,
            [iot_id |-> <<"l", "o", "c", "a", "t", "i", "o", "n", "_">> \o split(thing_id, "_")[2],
             name |-> <<"Location for ">> \o thing_id,
             description |-> <<"Measurement station location">>,
             encodingType |-> <<"application/geo+json">>,
             location |-> [type |-> <<"Point">>, coordinates |-> <<0, 0>>]]),
         !.created = Append(@, Created("Location", thing_id, <<>>, <<>>))]
  ELSE st

create_observed_property(st, property_name) ==
  IF ~dict_has(st.observed_properties, property_name)
  THEN [st EXCEPT
         !.observed_properties = dict_set(@, property_name,
            [iot_id |-> <<"o", "p", "_">> \o property_name,
             name |-> friendly_name(property_name),
             description |-> <<"Observed property for ">> \o friendly_name(property_name),
             definition |-> <<"http://example.org/properties", "/">> \o property_name]),
         !.created = Append(@, Created("ObservedProperty", property_name, <<>>, <<>>))]
  ELSE st

create_sensor(st, property_name) ==
  IF ~dict_has(st.sensors, property_name)
  THEN [st EXCEPT
         !.sensors = dict_set(@, property_name,
            [iot_id |-> <<"s", "e", "n", "s", "o", "r", "_">> \o property_name,
             name |-> friendly_name(property_name) \o <<" Sensor">>,
             description |-> <<"Sensor for measuring ">> \o friendly_name(property_name),
             encodingType |-> <<"application/pdf">>,
             metadata |-> <<"http://example.org/sensors", "/">> \o property_name]),
         !.created = Append(@, Created("Sensor", property_name, <<>>, <<>>))]
  ELSE st

datastream_key_of(thing_id, property_name) == thing_id \o <<"_">> \o property_name


\* create_datastream with the two inner calls in the other order
create_datastream_property_first(st, thing_id, property_name) ==
  LET datastream_key == datastream_key_of(thing_id, property_name)
      st1 == create_observed_property(st, property_name)
      st2 == create_sensor(st1, property_name)
  IN  IF ~dict_has(st.datastreams, datastream_key)
      THEN [st2 EXCEPT
             !.datastreams = dict_set(@, datastream_key,
                [iot_id |-> <<"d", "s", "_">> \o datastream_key,
                 name |-> friendly_name(property_name) \o <<" Datastream for Thing ">> \o thing_id,
                 description |-> <<"Datastream for measuring ">> \o friendly_name(property_name),
                 observationType |-> MEASUREMENT,
                 unitOfMeasurement |-> unit_of_measurement(property_name),
                 Sensor |-> dict_get(st2.sensors, property_name),
                 ObservedProperty |-> dict_get(st1.observed_properties, property_name)]),
             !.created = Append(@, Created("Datastream", datastream_key, thing_id, property_name))]
      ELSE st

create_datastream(st, thing_id, property_name) ==
  LET datastream_key == datastream_key_of(thing_id, property_name)
      st1 == create_sensor(st, property_name)
      st2 == create_observed_property(st1, property_name)
  IN  IF ~dict_has(st.datastreams, datastream_key)
      THEN [st2 EXCEPT
             !.datastreams = dict_set(@, datastream_key,
                [iot_id |-> <<"d", "s", "_">> \o datastream_key,
                 name |-> friendly_name(property_name) \o <<" Datastream for Thing ">> \o thing_id,
                 description |-> <<"Datastream for measuring ">> \o friendly_name(property_name),
                 observationType |-> MEASUREMENT,
                 unitOfMeasurement |-> unit_of_measurement(property_name),
                 Sensor |-> dict_get(st1.sensors, property_name),
                 ObservedProperty |-> dict_get(st2.observed_properties, property_name)]),
             !.created = Append(@, Created("Datastream", datastream_key, thing_id, property_name))]
      ELSE st

\* create_observation with the new observation put in front of the list
create_observation_in_front(st, datastream_id, timestamp, value, id_ms, column) ==
  [st EXCEPT
     !.observations = <<[phenomenonTime |-> timestamp,
                         resultTime |-> timestamp,
                         result |-> value]>> \o @,
     !.obs_src = <<[datastream_id |-> datastream_id,
                    id_ms |-> id_ms, column |-> column]>> \o @]

\* create_observation that keeps only the latest Observation of a Datastream
create_observation_latest_only(st, datastream_id, timestamp, value, id_ms, column) ==
  LET keep == SelectSeq([i \in 1..Len(st.observations) |-> i],
                        LAMBDA i : st.obs_src[i].datastream_id # datastream_id)
  IN  [st EXCEPT
         !.observations = Append([k \in 1..Len(keep) |-> st.observations[keep[k]]],
                                 [phenomenonTime |-> timestamp,
                                  resultTime |-> timestamp,
                                  result |-> value]),
         !.obs_src = Append([k \in 1..Len(keep) |-> st.obs_src[keep[k]]],
                            [datastream_id |-> datastream_id,
                             id_ms |-> id_ms, column |-> column])]

create_observation(st, datastream_id, timestamp, value, id_ms, column) ==
  [st EXCEPT
     !.observations = Append(@, [phenomenonTime |-> timestamp,
                                 resultTime |-> timestamp,
                                 result |-> value]),
     !.obs_src = Append(@, [datastream_id |-> datastream_id,
                            id_ms |-> id_ms, column |-> column])]

(***************************************************************************)
(* excel_to_sensorthings (final_version_6things.py).                       *)
(***************************************************************************)
UNKNOWN == <<"U", "n", "k", "n", "o", "w", "n">>

\* the legend loop: ID_MS -> {hms, bemerkung}
RECURSIVE legend_rows_mapping(_, _)
legend_rows_mapping(rows, has_bemerkung) ==
  IF rows = <<>> THEN <<>>
  ELSE LET r == rows[Len(rows)]
           bemerkung_cell == IF has_bemerkung THEN r.Bemerkung ELSE Str(<<>>)
       IN  dict_set(legend_rows_mapping(SubSeq(rows, 1, Len(rows) - 1), has_bemerkung),
                    str(r.ID_MS),
                    [hms |-> IF ~isna(r.HMS) THEN str(r.HMS) ELSE UNKNOWN,
                     bemerkung |-> IF ~isna(bemerkung_cell) THEN str(bemerkung_cell) ELSE <<>>])

id_to_hms_mapping ==
  IF legend_df.kind = "None" THEN <<>>
  ELSE IF "HMS" \in legend_df.columns /\ "ID_MS" \in legend_df.columns
       THEN legend_rows_mapping(legend_df.rows, "Bemerkung" \in legend_df.columns)
       ELSE <<>>

\* id_to_hms_mapping.get(id_ms, {"hms": "Unknown", "bemerkung": ""})
hms_info_of(id_ms) ==
  IF dict_has(id_to_hms_mapping, id_ms)
  THEN dict_get(id_to_hms_mapping, id_ms)
  ELSE [hms |-> UNKNOWN, bemerkung |-> <<>>]

thing_key_of(hms_info, id_ms) ==
  hms_info.hms \o <<"_">> \o hms_info.bemerkung \o <<"_">> \o id_ms

final_thing(st, thing_key, hms_info, id_ms, category) ==
  IF ~dict_has(st.things, thing_key)
  THEN [st EXCEPT
         !.things = dict_set(@, thing_key,
            [iot_id |-> <<"t", "h", "i", "n", "g", "_">> \o thing_key,
             name |-> hms_info.hms \o <<" - ">> \o hms_info.bemerkung \o <<" - Station ">> \o id_ms,
             description |-> category \o <<" measurement station for ">> \o hms_info.hms
                             \o <<" (">> \o hms_info.bemerkung \o <<") with ID: ">> \o id_ms,
             properties |-> [id_ms |-> id_ms, hms |-> hms_info.hms,
                             bemerkung |-> hms_info.bemerkung, category |-> category]]),
         !.created = Append(@, Created("Thing", thing_key, <<>>, <<>>))]
  ELSE st

final_location(st, thing_id, hms_info) ==
  IF ~dict_has(st.locations, thing_id)
  THEN [st EXCEPT
         !.locations = dict_set(@, thing_id,
            [iot_id |-> <<"l", "o", "c", "a", "t", "i", "o", "n", "_">>
                        \o replace(thing_id, <<"t", "h", "i", "n", "g", "_">>, <<>>),
             name |-> IF hms_info.hms # UNKNOWN
                      THEN <<"Location for ">> \o hms_info.hms \o <<" (">> \o hms_info.bemerkung \o <<")">>
                      ELSE <<"Location for ">> \o thing_id,
             description |-> <<"Measurement station location for ">> \o hms_info.hms
                             \o <<" (">> \o hms_info.bemerkung \o <<")">>,
             encodingType |-> <<"application/geo+json">>,
             location |-> [type |-> <<"Point">>, coordinates |-> <<0, 0>>]]),
         !.created = Append(@, Created("Location", thing_id, <<>>, <<>>))]
  ELSE st

final_observed_property(st, measurement_type) ==
  IF ~dict_has(st.observed_properties, measurement_type)
  THEN [st EXCEPT
         !.observed_properties = dict_set(@, measurement_type,
            [iot_id |-> <<"o", "p", "_">> \o measurement_type,
             name |-> friendly_name(measurement_type),
             description |-> <<"Observed property for ">> \o friendly_name(measurement_type),
             definition |-> <<"http://example.org/properties", "/">> \o measurement_type]),
         !.created = Append(@, Created("ObservedProperty", measurement_type, <<>>, <<>>))]
  ELSE st

final_sensor(st, measurement_type) ==
  IF ~dict_has(st.sensors, measurement_type)
  THEN [st EXCEPT
         !.sensors = dict_set(@, measurement_type,
            [iot_id |-> <<"s", "e", "n", "s", "o", "r", "_">> \o measurement_type,
             name |-> friendly_name(measurement_type) \o <<" Sensor">>,
             description |-> <<"Sensor for measuring ">> \o friendly_name(measurement_type),
             encodingType |-> <<"application/pdf">>,
             metadata |-> <<"http://example.org/sensors", "/">> \o measurement_type]),
         !.created = Append(@, Created("Sensor", measurement_type, <<>>, <<>>))]
  ELSE st

final_datastream_key(thing_id, measurement_type, hms_info) ==
  thing_id \o <<"_">> \o measurement_type
    \o <<"_">> \o hms_info.hms \o <<"_">> \o hms_info.bemerkung

final_datastream(st, thing_id, measurement_type, hms_info) ==
  LET datastream_key == final_datastream_key(thing_id, measurement_type, hms_info)
  IN  IF ~dict_has(st.datastreams, datastream_key)
      THEN [st EXCEPT
             !.datastreams = dict_set(@, datastream_key,
                [iot_id |-> <<"d", "s", "_">> \o datastream_key,
                 name |-> friendly_name(measurement_type) \o <<" Datastream for ">>
                          \o hms_info.hms \o <<" (">> \o hms_info.bemerkung \o <<")">>,
                 description |-> <<"Datastream for measuring ">> \o friendly_name(measurement_type)
                          \o <<" at ">> \o hms_info.hms \o <<" (">> \o hms_info.bemerkung \o <<")">>,
                 observationType |-> MEASUREMENT,
                 unitOfMeasurement |-> unit_of_measurement(measurement_type),
                 Sensor |-> dict_get(st.sensors, measurement_type),
                 ObservedProperty |-> dict_get(st.observed_properties, measurement_type)]),
             !.created = Append(@, Created("Datastream", datastream_key, thing_id, measurement_type))]
      ELSE st

\* the column body: ObservedProperty, Sensor, Datastream, in this order
final_register(st, thing_id, measurement_type, hms_info) ==
  final_datastream(
    final_sensor(final_observed_property(st, measurement_type), measurement_type),
    thing_id, measurement_type, hms_info)

final_observation(st, datastream_id, timestamp, value, id_ms, column) ==
  [st EXCEPT
     !.observations = Append(@, [phenomenonTime |-> timestamp,
                                 resultTime |-> timestamp,
                                 result |-> value,
                                 Datastream |-> [iot_id |-> datastream_id]]),
     !.obs_src = Append(@, [datastream_id |-> datastream_id,
                            id_ms |-> id_ms, column |-> column])]

\* the nesting loop at the end of excel_to_sensorthings
datastream_observations_final(datastream) ==
  LET own == SelectSeq(observations, LAMBDA o : o.Datastream.iot_id = datastream.iot_id)
  IN  [i \in 1..Len(own) |-> [phenomenonTime |-> own[i].phenomenonTime,
                              resultTime |-> own[i].resultTime,
                              result |-> own[i].result]]

thing_datastreams_final(thing) ==
  LET matching == SelectSeq(datastreams, LAMBDA e : startswith(e.key, thing.iot_id))
  IN  [i \in 1..Len(matching) |->
         IF datastream_observations_final(matching[i].val) # <<>>
         THEN matching[i].val @@
                [Observations |-> datastream_observations_final(matching[i].val)]
         ELSE matching[i].val]

nested_structure_final ==
  [Things |->
     [i \in 1..Len(things) |->
        LET thing == things[i].val
            with_location ==
              IF dict_has(locations, thing.iot_id)
              THEN thing @@ [Locations |-> <<dict_get(locations, thing.iot_id)>>]
              ELSE thing
            thing_datastreams == thing_datastreams_final(thing)
        IN  IF thing_datastreams # <<>>
            THEN with_location @@ [Datastreams |-> thing_datastreams]
            ELSE with_location]]

\* construct_nested_structure of the transformer
thing_datastreams_customized(thing) ==
  LET matching == SelectSeq(datastreams, LAMBDA e : startswith(e.key, thing.iot_id))
  IN  [i \in 1..Len(matching) |->
         IF observations # <<>>
         THEN matching[i].val @@ [Observations |-> observations]
         ELSE matching[i].val]

construct_nested_structure ==
  [Things |->
     [i \in 1..Len(things) |->
        LET thing == things[i].val
            with_location ==
              IF dict_has(locations, thing.iot_id)
              THEN thing @@ [Locations |-> <<dict_get(locations, thing.iot_id)>>]
              ELSE thing
            thing_datastreams == thing_datastreams_customized(thing)
        IN  IF thing_datastreams # <<>>
            THEN with_location @@ [Datastreams |-> thing_datastreams]
            ELSE with_location]]

(***************************************************************************)
(* The workbooks explored: sheet names, their column layouts, the station  *)
(* identifiers and the cell values a row may hold.                         *)
(***************************************************************************)
KLIMA == <<"K", "l", "i", "m", "a">>
TEMP_C == <<"T", "E", "M", "P", " ", "[", "C", "°", "]">>
TEMP == <<"T", "E", "M", "P">>
FOO == <<"F", "O", "O">>
A_TEMP == <<"A", "_", "T", "E", "M", "P">>
UNNAMED_2 == <<"U", "n", "n", "a", "m", "e", "d", ":", " ", "2">>

SheetNames == {FREIFLAECHE, BODEN_LUFTTEMP, KLIMA}

Layouts(sheet_name) ==
  IF sheet_name = FREIFLAECHE THEN {<<ID_MS, DATUM_ZEIT, TEMP_C, FOO>>}
  ELSE IF sheet_name = BODEN_LUFTTEMP THEN {<<ID_MS, DATUMZEIT, UNNAMED_2, TEMP>>}
       ELSE {<<ID_MS, DATUM, TEMP>>, <<ID_MS, TEMP>>, <<ID_MS, DATUM, A_TEMP>>}

IdCells ==
  {Str(<<"M", "S", "1">>), Str(<<"M", "S", "1", "0">>),
   Str(<<"M", "S", "1", "_", "A">>),
   Str(<<"t", "h", "i", "n", "g", "_", "M", "S", "1">>), NaN}

CellValues == {NaN, Float(205), Str(<<"x">>)}

NoSheet == [kind |-> "None"]
Legend1 ==
  [kind |-> "sheet", columns |-> {"ID_MS", "HMS", "Bemerkung"},
   rows |-> <<[ID_MS |-> Str(<<"M", "S", "1">>), HMS |-> Str(<<"W">>), Bemerkung |-> NaN]>>]
\* a legend whose remarks hold the "_" that also joins the parts of a key
Legend2 ==
  [kind |-> "sheet", columns |-> {"ID_MS", "HMS", "Bemerkung"},
   rows |-> <<[ID_MS |-> Str(<<"M", "S", "1">>), HMS |-> Str(<<"W">>),
               Bemerkung |-> Str(<<"N", "_", "t", "h", "i", "n", "g">>)],
              [ID_MS |-> Str(<<"t", "h", "i", "n", "g", "_", "M", "S", "1">>),
               HMS |-> Str(<<"W">>), Bemerkung |-> Str(<<"N">>)]>>]
\* a legend without the HMS column
LegendNoHMS ==
  [kind |-> "sheet", columns |-> {"ID_MS", "Bemerkung"},
   rows |-> <<[ID_MS |-> Str(<<"M", "S", "1">>), Bemerkung |-> Str(<<"N">>)]>>]
LegendSheets == {NoSheet, Legend1, Legend2, LegendNoHMS}

NoRow == [kind |-> "None"]

id_column == ID_MS

(***************************************************************************)
(* The run.                                                                *)
(***************************************************************************)
Init ==
  /\ variant \in {"customized", "final"}
  /\ legend_df \in LegendSheets
  /\ sheets_read = <<>>
  /\ rows_read = <<>>
  /\ pc = "sheets"
  /\ sheet = NoSheet
  /\ row = NoRow
  /\ things = <<>>
  /\ locations = <<>>
  /\ observed_properties = <<>>
  /\ sensors = <<>>
  /\ datastreams = <<>>
  /\ observations = <<>>
  /\ created = <<>>
  /\ obs_src = <<>>
  /\ result = None
  /\ excel_data = None
  /\ first_output = None

SheetsSeen == {sheets_read[i].sheet_name : i \in 1..Len(sheets_read)}

\* the exception caught around the sheet: the run goes on with the next sheet
Raise_caught_per_sheet ==
  /\ pc' = "sheets"
  /\ sheet' = NoSheet
  /\ row' = NoRow

\* an exception leaves every loop and the function: nothing is returned
Raise ==
  /\ pc' = "failed"
  /\ sheet' = NoSheet
  /\ row' = NoRow

\* where the row loop goes once a row is finished
AfterRow(rows_left) == IF rows_left = 0 THEN "sheets" ELSE "rows"

\* process_sheet / the sheet loop: the legend sheet is skipped
SkipLegend ==
  /\ pc = "sheets"
  /\ legend_df # NoSheet
  /\ LEGENDE \notin SheetsSeen
  /\ Len(sheets_read) < MaxSheets
  /\ sheets_read' = Append(sheets_read, [sheet_name |-> LEGENDE, columns |-> <<>>])
  /\ UNCHANGED <<excel_data, first_output, variant, legend_df, rows_read, pc, sheet, row, things, locations,
                 observed_properties, sensors, datastreams, observations,
                 created, obs_src, result>>

\* process_sheet / the sheet loop up to the row loop
OpenSheet ==
  /\ pc = "sheets"
  /\ Len(sheets_read) < MaxSheets
  /\ \E sheet_name \in SheetNames \ SheetsSeen :
     \E columns \in Layouts(sheet_name) :
     \E n \in 0..(MaxRows - Len(rows_read)) :
       /\ variant = "final" =>
            id_column \in {columns[i] : i \in 1..Len(columns)}
            /\ timestamp_column_of(sheet_name) \in {columns[i] : i \in 1..Len(columns)}
       /\ sheets_read' = Append(sheets_read, [sheet_name |-> sheet_name, columns |-> columns])
       /\ IF n = 0
          THEN pc' = "sheets" /\ sheet' = NoSheet
          ELSE /\ pc' = "rows"
               /\ sheet' = [sheet_name |-> sheet_name,
                            category |-> category_of(sheet_name),
                            timestamp_column |-> timestamp_column_of(sheet_name),
                            columns |-> columns,
                            rows_left |-> n]
  /\ UNCHANGED <<excel_data, first_output, variant, legend_df, rows_read, row, things, locations,
                 observed_properties, sensors, datastreams, observations,
                 created, obs_src, result>>

Columns == {sheet.columns[i] : i \in 1..Len(sheet.columns)}

ReadRow(id, ts) ==
  rows_read' = Append(rows_read, [sheet_name |-> sheet.sheet_name, id |-> id,
                                  ts |-> ts, cells |-> <<>>])

ReadCell(column, value) ==
  rows_read' = [rows_read EXCEPT ![Len(rows_read)].cells =
                   Append(@, [column |-> column, value |-> value])]

\* process_sheet: one iteration of the row loop up to the column loop
RowCustomized ==
  /\ variant = "customized"
  /\ pc = "rows"
  /\ \E id \in IdCells, ts \in {Timestamp(Len(rows_read) + 1), NaN} :
       LET id_ms == str(id)
           st1 == create_thing(Store, id_ms, sheet.category)
           thing_id == dict_get(st1.things, id_ms).iot_id
           st2 == create_location(st1, thing_id)
           left == sheet.rows_left - 1
       IN  /\ ReadRow(id, ts)
           /\ IF sheet.timestamp_column \notin Columns
              THEN \* row[timestamp_column] raises KeyError
                   /\ SetStore(st2)
                   /\ Raise
              ELSE IF isna(ts)
              THEN /\ SetStore(st2)
                   /\ pc' = AfterRow(left)
                   /\ sheet' = IF left = 0 THEN NoSheet ELSE [sheet EXCEPT !.rows_left = left]
                   /\ row' = NoRow
              ELSE /\ SetStore(st2)
                   /\ pc' = "cols"
                   /\ sheet' = [sheet EXCEPT !.rows_left = left]
                   /\ row' = [id_ms |-> id_ms, thing_id |-> thing_id,
                              timestamp |-> isoformat(ts), col |-> 1]
  /\ UNCHANGED <<excel_data, first_output, variant, legend_df, sheets_read, result>>

\* where the column loop goes after the column at row.col
NextColumn ==
  IF row.col < Len(sheet.columns)
  THEN /\ pc' = "cols"
       /\ row' = [row EXCEPT !.col = @ + 1]
       /\ sheet' = sheet
  ELSE /\ pc' = AfterRow(sheet.rows_left)
       /\ row' = NoRow
       /\ sheet' = IF sheet.rows_left = 0 THEN NoSheet ELSE sheet

\* the column test without the test for unnamed columns
IsSkippedColumn_named_only(column) ==
  column \in {id_column, sheet.timestamp_column}

IsSkippedColumn(column) ==
  \/ column \in {id_column, sheet.timestamp_column}
  \/ startswith(column, <<"U", "n", "n", "a", "m", "e", "d">>)

\* process_sheet: one iteration of the column loop
ColumnCustomized ==
  /\ variant = "customized"
  /\ pc = "cols"
  /\ LET column == sheet.columns[row.col]
     IN  IF IsSkippedColumn(column)
         THEN /\ NextColumn
              /\ UNCHANGED <<rows_read, things, locations, observed_properties,
                             sensors, datastreams, observations, created, obs_src>>
         ELSE \E value \in CellValues :
                /\ ReadCell(column, value)
                /\ IF isna(value)
                   THEN /\ NextColumn
                        /\ UNCHANGED <<things, locations, observed_properties,
                                       sensors, datastreams, observations,
                                       created, obs_src>>
                   ELSE LET measurement_type == split(column, " ")[1]
                            st1 == create_datastream(Store, row.thing_id, measurement_type)
                            datastream_id ==
                              dict_get(st1.datastreams,
                                       datastream_key_of(row.thing_id, measurement_type)).iot_id
                        IN  IF IsNumeric(value)
                            THEN /\ SetStore(create_observation(st1, datastream_id,
                                        row.timestamp, float(value), row.id_ms, column))
                                 /\ NextColumn
                            ELSE \* float(value) raises ValueError
                                 /\ SetStore(st1)
                                 /\ Raise
  /\ UNCHANGED <<excel_data, first_output, variant, legend_df, sheets_read, result>>

\* transform: every sheet is processed, the nested structure is returned
AssembleCustomized ==
  /\ variant = "customized"
  /\ pc = "sheets"
  /\ legend_df # NoSheet => LEGENDE \in SheetsSeen
  /\ result' = construct_nested_structure
  /\ pc' = "done"
  /\ UNCHANGED <<excel_data, first_output, variant, legend_df, sheets_read, rows_read, sheet, row, things,
                 locations, observed_properties, sensors, datastreams,
                 observations, created, obs_src>>

\* the sheet loop: a sheet without the identifier or timestamp column is skipped
SkipSheetFinal ==
  /\ variant = "final"
  /\ pc = "sheets"
  /\ Len(sheets_read) < MaxSheets
  /\ \E sheet_name \in SheetNames \ SheetsSeen :
     \E columns \in Layouts(sheet_name) :
       /\ \/ id_column \notin {columns[i] : i \in 1..Len(columns)}
          \/ timestamp_column_of(sheet_name) \notin {columns[i] : i \in 1..Len(columns)}
       /\ sheets_read' = Append(sheets_read, [sheet_name |-> sheet_name, columns |-> columns])
  /\ UNCHANGED <<excel_data, first_output, variant, legend_df, rows_read, pc, sheet, row, things, locations,
                 observed_properties, sensors, datastreams, observations,
                 created, obs_src, result>>

\* one iteration of the row loop up to the column loop
RowFinal ==
  /\ variant = "final"
  /\ pc = "rows"
  /\ \E id \in IdCells, ts \in {Timestamp(Len(rows_read) + 1), NaN} :
       LET id_ms == str(id)
           hms_info == hms_info_of(id_ms)
           thing_key == thing_key_of(hms_info, id_ms)
           st1 == final_thing(Store, thing_key, hms_info, id_ms, sheet.category)
           thing_id == dict_get(st1.things, thing_key).iot_id
           st2 == final_location(st1, thing_id, hms_info)
           left == sheet.rows_left - 1
       IN  /\ ReadRow(id, ts)
           /\ SetStore(st2)
           /\ IF isna(ts)
              THEN /\ pc' = AfterRow(left)
                   /\ sheet' = IF left = 0 THEN NoSheet ELSE [sheet EXCEPT !.rows_left = left]
                   /\ row' = NoRow
              ELSE /\ pc' = "cols"
                   /\ sheet' = [sheet EXCEPT !.rows_left = left]
                   /\ row' = [id_ms |-> id_ms, thing_id |-> thing_id,
                              timestamp |-> isoformat(ts), col |-> 1]
  /\ UNCHANGED <<excel_data, first_output, variant, legend_df, sheets_read, result>>

\* one iteration of the column loop
ColumnFinal ==
  /\ variant = "final"
  /\ pc = "cols"
  /\ LET column == sheet.columns[row.col]
     IN  IF IsSkippedColumn(column)
         THEN /\ NextColumn
              /\ UNCHANGED <<rows_read, things, locations, observed_properties,
                             sensors, datastreams, observations, created, obs_src>>
         ELSE \E value \in CellValues :
                /\ ReadCell(column, value)
                /\ IF isna(value)
                   THEN /\ NextColumn
                        /\ UNCHANGED <<things, locations, observed_properties,
                                       sensors, datastreams, observations,
                                       created, obs_src>>
                   ELSE LET measurement_type == split(column, " ")[1]
                            hms_info == hms_info_of(row.id_ms)
                            st1 == final_register(Store, row.thing_id, measurement_type, hms_info)
                            datastream_id ==
                              dict_get(st1.datastreams,
                                       final_datastream_key(row.thing_id, measurement_type,
                                                            hms_info)).iot_id
                        IN  IF IsNumeric(value)
                            THEN /\ SetStore(final_observation(st1, datastream_id,
                                        row.timestamp, float(value), row.id_ms, column))
                                 /\ NextColumn
                            ELSE \* float(value) raises ValueError
                                 /\ SetStore(st1)
                                 /\ Raise
  /\ UNCHANGED <<excel_data, first_output, variant, legend_df, sheets_read, result>>

\* every sheet is processed, the nested structure is built and returned
AssembleFinal ==
  /\ variant = "final"
  /\ pc = "sheets"
  /\ legend_df # NoSheet => LEGENDE \in SheetsSeen
  /\ result' = nested_structure_final
  /\ pc' = "done"
  /\ UNCHANGED <<excel_data, first_output, variant, legend_df, sheets_read, rows_read, sheet, row, things,
                 locations, observed_properties, sensors, datastreams,
                 observations, created, obs_src>>

Next ==
  \/ SkipLegend
  \/ OpenSheet
  \/ RowCustomized
  \/ ColumnCustomized
  \/ AssembleCustomized
  \/ SkipSheetFinal
  \/ RowFinal
  \/ ColumnFinal
  \/ AssembleFinal

Spec == Init /\ [][Next]_vars

(***************************************************************************)
(* The normalized-shape converter (sensorthings_excel_converter.py).       *)
(* A table is the sequence of its rows, a row the record of its columns;   *)
(* an entity is a record, an optional key a field that may be absent.      *)
(* The explored tables carry structured values only, no JSON text.         *)
(***************************************************************************)
Num(n) == [kind |-> "int", n |-> n]

\* dict.get(key, default) and row.get(column, default)
get(d, key, default) == IF key \in DOMAIN d THEN d[key] ELSE default

\* "column" in row and not pd.isna(row["column"])
is_provided(r, column) == column \in DOMAIN r /\ ~isna(r[column])

\* the link {"@iot.id": row[column]} under key, when the column is provided
with_link(entity, key, r, column) ==
  IF is_provided(r, column)
  THEN (key :> [iot_id |-> r[column]]) @@ entity
  ELSE entity

\* a key of the dict comprehension that drops None values
without_none(entity, key, value) ==
  IF value = None THEN entity ELSE (key :> value) @@ entity

\* f"<prefix>_{uuid.uuid4()}"
generated_name(prefix, uuid) == Str(<<prefix, "_", uuid>>)

POINT_0_0 == [type |-> <<"Point">>, coordinates |-> <<0, 0>>]

thing_of(r, uuid) ==
  [name |-> get(r, "name", generated_name("Thing", uuid)),
   description |-> get(r, "description", Str(<<>>)),
   properties |-> get(r, "properties", <<>>)]

location_of(r, uuid) ==
  with_link([name |-> get(r, "name", generated_name("Location", uuid)),
             description |-> get(r, "description", Str(<<>>)),
             encodingType |-> get(r, "encodingType", Str(<<"application/geo+json">>)),
             location |-> get(r, "location", POINT_0_0)],
            "Thing", r, "thing_id")

observed_property_of(r, uuid) ==
  [name |-> get(r, "name", generated_name("ObservedProperty", uuid)),
   description |-> get(r, "description", Str(<<>>)),
   definition |-> get(r, "definition", Str(<<>>))]

sensor_of(r, uuid) ==
  [name |-> get(r, "name", generated_name("Sensor", uuid)),
   description |-> get(r, "description", Str(<<>>)),
   encodingType |-> get(r, "encodingType", Str(<<"application/pdf">>)),
   metadata |-> get(r, "metadata", Str(<<>>))]

datastream_of(r, uuid) ==
  with_link(
    with_link(
      with_link([name |-> get(r, "name", generated_name("Datastream", uuid)),
                 description |-> get(r, "description", Str(<<>>)),
                 observationType |-> get(r, "observationType", Str(MEASUREMENT)),
                 unitOfMeasurement |-> get(r, "unitOfMeasurement", <<>>)],
                "Thing", r, "thing_id"),
      "Sensor", r, "sensor_id"),
    "ObservedProperty", r, "observed_property_id")

observation_of(r) ==
  LET kept ==
        without_none(
          without_none(
            without_none(
              without_none([parameters |-> get(r, "parameters", <<>>)],
                           "phenomenonTime", get(r, "phenomenonTime", None)),
              "resultTime", get(r, "resultTime", None)),
            "result", get(r, "result", None)),
          "resultQuality", get(r, "resultQuality", None))
      linked == with_link(kept, "Datastream", r, "datastream_id")
  IN  IF is_provided(r, "feature_of_interest")
      THEN [FeatureOfInterest |-> r.feature_of_interest] @@ linked
      ELSE linked

\* the rows of a sheet of the workbook, none when the sheet is absent
rows_of(sheet_name) ==
  IF sheet_name \in DOMAIN excel_data THEN excel_data[sheet_name] ELSE <<>>

\* sta_data, the six collections
StaData ==
  [Things |-> things, Locations |-> locations,
   ObservedProperties |-> observed_properties, Sensors |-> sensors,
   Datastreams |-> datastreams, Observations |-> observations]

\* thing.get("@iot.id", len(result["Things"]) + 1)
thing_id_of(thing, position) == get(thing, "iot_id", Num(position))

\* key in entity and entity[key].get("@iot.id") == id
refers_to(entity, key, id) ==
  key \in DOMAIN entity /\ get(entity[key], "iot_id", None) = id

\* the reference under key replaced by the last matching entity
resolve_reference_last(ds, key, collection) ==
  IF key \in DOMAIN ds
  THEN LET id == get(ds[key], "iot_id", None)
           matching == SelectSeq(collection, LAMBDA e : get(e, "iot_id", None) = id)
       IN  IF matching # <<>> THEN [ds EXCEPT ![key] = matching[Len(matching)]] ELSE ds
  ELSE ds

\* the reference under key replaced by the first matching entity, if any
resolve_reference(ds, key, collection) ==
  IF key \in DOMAIN ds
  THEN LET id == get(ds[key], "iot_id", None)
           matching == SelectSeq(collection, LAMBDA e : get(e, "iot_id", None) = id)
       IN  IF matching # <<>> THEN [ds EXCEPT ![key] = matching[1]] ELSE ds
  ELSE ds

attach_observations(ds, all_observations) ==
  LET ds_id == get(ds, "iot_id", None)
      ds_observations ==
        SelectSeq(all_observations, LAMBDA obs : refers_to(obs, "Datastream", ds_id))
  IN  IF ds_observations # <<>>
      THEN ("Observations" :> ds_observations) @@ ds
      ELSE ds

\* the body of the loop over thing_datastreams: ds is changed in place
associate(sta_data, ds) ==
  attach_observations(
    resolve_reference(resolve_reference(ds, "Sensor", sta_data.Sensors),
                      "ObservedProperty", sta_data.ObservedProperties),
    sta_data.Observations)

\* sta_data["Datastreams"] once the first n Things have been visited
RECURSIVE associated_datastreams(_, _)
associated_datastreams(sta_data, n) ==
  IF n = 0 THEN sta_data.Datastreams
  ELSE LET before == associated_datastreams(sta_data, n - 1)
           thing_id == thing_id_of(sta_data.Things[n], n)
       IN  [k \in 1..Len(before) |->
              IF refers_to(before[k], "Thing", thing_id)
              THEN associate(sta_data, before[k])
              ELSE before[k]]

\* construct_nested_structure(sta_data): the document; its Datastreams are
\* the objects of sta_data["Datastreams"], as they are when it returns
nested_structure_of(sta_data) ==
  LET final == associated_datastreams(sta_data, Len(sta_data.Things))
  IN  [Things |->
         [i \in 1..Len(sta_data.Things) |->
            LET thing_id == thing_id_of(sta_data.Things[i], i)
                with_id == ("iot_id" :> thing_id) @@ sta_data.Things[i]
                thing_locations ==
                  SelectSeq(sta_data.Locations, LAMBDA loc : refers_to(loc, "Thing", thing_id))
                with_locations ==
                  IF thing_locations # <<>>
                  THEN ("Locations" :> thing_locations) @@ with_id
                  ELSE with_id
                thing_datastreams ==
                  SelectSeq(final, LAMBDA ds : refers_to(ds, "Thing", thing_id))
            IN  IF thing_datastreams # <<>>
                THEN ("Datastreams" :> thing_datastreams) @@ with_locations
                ELSE with_locations]]

(***************************************************************************)
(* The normalized workbooks explored, and the collections handed to        *)
(* construct_nested_structure by a direct caller.                          *)
(***************************************************************************)
UUIDs == {"u1", "u2"}

Absent == [present |-> FALSE, rows |-> <<>>]
Table(rows) == [present |-> TRUE, rows |-> rows]

ThingsTables ==
  {Absent,
   Table(<<[name |-> Str(<<"A">>)]>>),
   Table(<<[name |-> Str(<<"A">>)], [name |-> Str(<<"B">>)]>>),
   Table(<<[description |-> Str(<<"d">>)]>>)}

LocationsTables ==
  {Absent,
   Table(<<[name |-> Str(<<"L">>), thing_id |-> Num(1)]>>),
   Table(<<[name |-> Str(<<"L">>), thing_id |-> NaN]>>),
   Table(<<[name |-> Str(<<"L">>), thing_id |-> Num(1)],
           [name |-> Str(<<"M">>), thing_id |-> Num(1)]>>)}

ObservedPropertiesTables == {Absent, Table(<<[name |-> Str(<<"P">>)]>>)}

SensorsTables == {Absent, Table(<<[name |-> Str(<<"S">>)]>>)}

DatastreamsTables ==
  {Absent} \cup
  {Table(<<[name |-> Str(<<"D">>), thing_id |-> Num(1), sensor_id |-> sensor_id,
            observed_property_id |-> Num(1)]>>) : sensor_id \in {Num(1), Num(9), NaN}}

ObservationsTables ==
  {Absent,
   Table(<<[result |-> Float(205), datastream_id |-> Num(1)]>>),
   Table(<<[result |-> Float(205), datastream_id |-> Num(1)],
           [result |-> Float(205), datastream_id |-> NaN]>>)}

\* pd.read_excel(path, sheet_name=None): the sheets that exist, by name
Workbooks ==
  {[sheet_name \in {n \in DOMAIN tables : tables[n].present} |-> tables[sheet_name].rows] :
     tables \in [Things : ThingsTables, Locations : LocationsTables,
                 ObservedProperties : ObservedPropertiesTables,
                 Sensors : SensorsTables, Datastreams : DatastreamsTables,
                 Observations : ObservationsTables]}

Entity(id, name) == [iot_id |-> Num(id), name |-> Str(<<name>>)]

Ref(id) == [iot_id |-> Num(id)]

\* a reference under key, none when id is 0
WithRef(entity, key, id) == IF id = 0 THEN entity ELSE (key :> Ref(id)) @@ entity

DirectDatastream(id, thing_id, sensor_id, observed_property_id) ==
  WithRef(WithRef(WithRef(Entity(id, "D"), "Thing", thing_id), "Sensor", sensor_id),
          "ObservedProperty", observed_property_id)

DirectInputs ==
  {[Things |-> t, Locations |-> l, ObservedProperties |-> p, Sensors |-> s,
    Datastreams |-> d, Observations |-> o] :
     t \in {<<[name |-> Str(<<"A">>)]>>,
            <<[name |-> Str(<<"A">>)], [name |-> Str(<<"B">>)]>>,
            <<Entity(2, "A"), [name |-> Str(<<"B">>)]>>},
     l \in {<<>>, <<WithRef(Entity(1, "L"), "Thing", 1)>>},
     p \in {<<>>, <<Entity(1, "P1"), Entity(1, "P2")>>},
     s \in {<<>>, <<Entity(1, "S1")>>, <<Entity(1, "S1"), Entity(1, "S2")>>,
            <<Entity(2, "S2"), Entity(1, "S1")>>},
     d \in {<<DirectDatastream(1, 1, sensor_id, observed_property_id)>> :
              sensor_id \in {0, 1, 9}, observed_property_id \in {0, 1, 9}}
           \cup {<<DirectDatastream(1, 1, 1, 1), DirectDatastream(2, 2, 1, 9)>>,
                 <<DirectDatastream(1, 0, 1, 1)>>},
     o \in {<<>>,
            <<WithRef([result |-> Float(205)], "Datastream", 1)>>,
            <<WithRef([result |-> Float(205)], "Datastream", 1),
              WithRef([result |-> Float(210)], "Datastream", 2)>>}}

(***************************************************************************)
(* The run of the normalized-shape converter: excel_to_sensorthings from a *)
(* workbook, or construct_nested_structure called with collections.        *)
(***************************************************************************)
InitN ==
  /\ variant = "normalized"
  /\ legend_df = NoSheet
  /\ sheets_read = <<>>
  /\ rows_read = <<>>
  /\ sheet = NoSheet
  /\ row = NoRow
  /\ created = <<>>
  /\ obs_src = <<>>
  /\ result = None
  /\ first_output = None
  /\ \/ /\ excel_data \in Workbooks
        /\ pc = "Things"
        /\ things = <<>>
        /\ locations = <<>>
        /\ observed_properties = <<>>
        /\ sensors = <<>>
        /\ datastreams = <<>>
        /\ observations = <<>>
     \/ /\ excel_data = None
        /\ pc = "nest"
        /\ \E sta_data \in DirectInputs :
             /\ things = sta_data.Things
             /\ locations = sta_data.Locations
             /\ observed_properties = sta_data.ObservedProperties
             /\ sensors = sta_data.Sensors
             /\ datastreams = sta_data.Datastreams
             /\ observations = sta_data.Observations

LoadThings ==
  /\ variant = "normalized"
  /\ pc = "Things"
  /\ \E uuids \in [1..Len(rows_of("Things")) -> UUIDs] :
       things' = things \o [i \in 1..Len(rows_of("Things")) |-> thing_of(rows_of("Things")[i], uuids[i])]
  /\ pc' = "Locations"
  /\ UNCHANGED <<excel_data, first_output, variant, legend_df, sheets_read, rows_read,
                 sheet, row, locations, observed_properties, sensors, datastreams,
                 observations, created, obs_src, result>>

LoadLocations ==
  /\ variant = "normalized"
  /\ pc = "Locations"
  /\ \E uuids \in [1..Len(rows_of("Locations")) -> UUIDs] :
       locations' = locations \o [i \in 1..Len(rows_of("Locations")) |-> location_of(rows_of("Locations")[i], uuids[i])]
  /\ pc' = "ObservedProperties"
  /\ UNCHANGED <<excel_data, first_output, variant, legend_df, sheets_read, rows_read,
                 sheet, row, things, observed_properties, sensors, datastreams,
                 observations, created, obs_src, result>>

LoadObservedProperties ==
  /\ variant = "normalized"
  /\ pc = "ObservedProperties"
  /\ \E uuids \in [1..Len(rows_of("ObservedProperties")) -> UUIDs] :
       observed_properties' =
         observed_properties
           \o [i \in 1..Len(rows_of("ObservedProperties")) |-> observed_property_of(rows_of("ObservedProperties")[i], uuids[i])]
  /\ pc' = "Sensors"
  /\ UNCHANGED <<excel_data, first_output, variant, legend_df, sheets_read, rows_read,
                 sheet, row, things, locations, sensors, datastreams,
                 observations, created, obs_src, result>>

LoadSensors ==
  /\ variant = "normalized"
  /\ pc = "Sensors"
  /\ \E uuids \in [1..Len(rows_of("Sensors")) -> UUIDs] :
       sensors' = sensors \o [i \in 1..Len(rows_of("Sensors")) |-> sensor_of(rows_of("Sensors")[i], uuids[i])]
  /\ pc' = "Datastreams"
  /\ UNCHANGED <<excel_data, first_output, variant, legend_df, sheets_read, rows_read,
                 sheet, row, things, locations, observed_properties, datastreams,
                 observations, created, obs_src, result>>

LoadDatastreams ==
  /\ variant = "normalized"
  /\ pc = "Datastreams"
  /\ \E uuids \in [1..Len(rows_of("Datastreams")) -> UUIDs] :
       datastreams' = datastreams \o [i \in 1..Len(rows_of("Datastreams")) |-> datastream_of(rows_of("Datastreams")[i], uuids[i])]
  /\ pc' = "Observations"
  /\ UNCHANGED <<excel_data, first_output, variant, legend_df, sheets_read, rows_read,
                 sheet, row, things, locations, observed_properties, sensors,
                 observations, created, obs_src, result>>

LoadObservations ==
  /\ variant = "normalized"
  /\ pc = "Observations"
  /\ observations' =
       observations \o [i \in 1..Len(rows_of("Observations")) |->
                          observation_of(rows_of("Observations")[i])]
  /\ pc' = "nest"
  /\ UNCHANGED <<excel_data, first_output, variant, legend_df, sheets_read, rows_read,
                 sheet, row, things, locations, observed_properties, sensors,
                 datastreams, created, obs_src, result>>

\* construct_nested_structure(sta_data) and the return of its document
Nest ==
  /\ variant = "normalized"
  /\ pc = "nest"
  /\ result' = nested_structure_of(StaData)
  /\ datastreams' = associated_datastreams(StaData, Len(things))
  /\ pc' = "done"
  /\ UNCHANGED <<excel_data, first_output, variant, legend_df, sheets_read, rows_read,
                 sheet, row, things, locations, observed_properties, sensors,
                 observations, created, obs_src>>

\* excel_to_sensorthings called once more on the same workbook
Rerun ==
  /\ variant = "normalized"
  /\ pc = "done"
  /\ excel_data # None
  /\ first_output = None
  /\ first_output' = result
  /\ result' = None
  /\ pc' = "Things"
  /\ things' = <<>>
  /\ locations' = <<>>
  /\ observed_properties' = <<>>
  /\ sensors' = <<>>
  /\ datastreams' = <<>>
  /\ observations' = <<>>
  /\ UNCHANGED <<excel_data, variant, legend_df, sheets_read, rows_read,
                 sheet, row, created, obs_src>>

NextN ==
  \/ LoadThings
  \/ LoadLocations
  \/ LoadObservedProperties
  \/ LoadSensors
  \/ LoadDatastreams
  \/ LoadObservations
  \/ Nest
  \/ Rerun

SpecN == InitN /\ [][NextN]_vars

(***************************************************************************)
(* Reading the returned document and the input that was read.              *)
(***************************************************************************)
Returned == pc = "done"

\* a cell of the input that holds no value
IsMissing(v) == v = NaN

OutThings == result.Things

DatastreamsOf(thing) ==
  IF "Datastreams" \in DOMAIN thing THEN thing.Datastreams ELSE <<>>

ObservationsOf(datastream) ==
  IF "Observations" \in DOMAIN datastream THEN datastream.Observations ELSE <<>>

Range(seq) == {seq[i] : i \in 1..Len(seq)}

RECURSIVE SumSeq(_)
SumSeq(seq) == IF seq = <<>> THEN 0 ELSE Head(seq) + SumSeq(Tail(seq))

\* the observation list without the back reference of the final variant
PlainObservation(o) ==
  [phenomenonTime |-> o.phenomenonTime, resultTime |-> o.resultTime, result |-> o.result]

\* the observations that were created for the datastream with this id, in order
CreatedFor(datastream_id) ==
  LET idx == SelectSeq([i \in 1..Len(observations) |-> i],
                       LAMBDA i : obs_src[i].datastream_id = datastream_id)
  IN  [k \in 1..Len(idx) |-> PlainObservation(observations[idx[k]])]

\* the registry entries of one kind, as the insertion history has them
CreatedOfKind(kind) == SelectSeq(created, LAMBDA e : e.kind = kind)

\* how often a datastream id occurs in the whole document
Occurrences(datastream_id) ==
  SumSeq([i \in 1..Len(OutThings) |->
            Cardinality({j \in 1..Len(DatastreamsOf(OutThings[i])) :
                           DatastreamsOf(OutThings[i])[j].iot_id = datastream_id})])

TotalObservations ==
  SumSeq([i \in 1..Len(OutThings) |->
            SumSeq([j \in 1..Len(DatastreamsOf(OutThings[i])) |->
                      Len(ObservationsOf(DatastreamsOf(OutThings[i])[j]))])])

\* the (row, measurement column) pairs with identifier, timestamp and a number
ValidCells(r) ==
  IF IsMissing(r.id) \/ IsMissing(r.ts) THEN 0
  ELSE Cardinality({k \in 1..Len(r.cells) :
                      ~IsMissing(r.cells[k].value) /\ IsNumeric(r.cells[k].value)})

TotalValidCells == SumSeq([i \in 1..Len(rows_read) |-> ValidCells(rows_read[i])])

(***************************************************************************)
(* C1: in the document of the customized transform every Observation is    *)
(* listed under exactly the Datastream it was created for (the one of its  *)
(* station and source column), and under no other.                         *)
(***************************************************************************)
C1_ExclusiveOwnership ==
  (Returned /\ variant = "customized") =>
    \A i \in 1..Len(OutThings) :
      \A j \in 1..Len(DatastreamsOf(OutThings[i])) :
        LET d == DatastreamsOf(OutThings[i])[j]
        IN  ObservationsOf(d) = CreatedFor(d.iot_id)

(***************************************************************************)
(* C2: in the document of the final transform the number of Observations,  *)
(* summed over all Datastreams of all Things, is the number of (row,       *)
(* column) pairs with identifier, timestamp and a numeric cell.            *)
(***************************************************************************)
C2_ObservationCountConserved ==
  (Returned /\ variant = "final") => TotalObservations = TotalValidCells

(***************************************************************************)
(* C3: in the document of either transform a Datastream is listed under a  *)
(* Thing exactly when it was registered for that Thing, so every           *)
(* Datastream is listed under exactly one Thing.                           *)
(***************************************************************************)
C3_DatastreamUnderOwningThing ==
  Returned =>
    /\ \A i \in 1..Len(OutThings) :
         {d.iot_id : d \in Range(DatastreamsOf(OutThings[i]))}
           = {dict_get(datastreams, e.key).iot_id :
                e \in {c \in Range(CreatedOfKind("Datastream")) :
                         c.owner = OutThings[i].iot_id}}
    /\ \A k \in 1..Len(datastreams) : Occurrences(datastreams[k].val.iot_id) = 1

(***************************************************************************)
(* Steps of the run, told apart by what they read.                         *)
(***************************************************************************)
RowStep == Len(rows_read') = Len(rows_read) + 1

CellStep == Len(rows_read') = Len(rows_read) /\ rows_read' # rows_read

LastRowRead == rows_read'[Len(rows_read')]

LastCellRead == LastRowRead.cells[Len(LastRowRead.cells)]

\* the key under which the station of a row is registered
ThingKeyOfRow(r) ==
  IF variant = "customized" THEN str(r.id)
  ELSE thing_key_of(hms_info_of(str(r.id)), str(r.id))

\* the datastream key a cell of this row and column is registered under
DatastreamKeyOfCell(r, column) ==
  LET thing_id == <<"t", "h", "i", "n", "g", "_">> \o ThingKeyOfRow(r)
      code == split(column, " ")[1]
  IN  IF variant = "customized" THEN datastream_key_of(thing_id, code)
      ELSE final_datastream_key(thing_id, code, hms_info_of(str(r.id)))

KeepsEntries(d, dn) == Len(dn) >= Len(d) /\ SubSeq(dn, 1, Len(d)) = d

DistinctKeys(d) == \A i, j \in 1..Len(d) : i # j => d[i].key # d[j].key

DistinctIds(d) == \A i, j \in 1..Len(d) : i # j => d[i].val.iot_id # d[j].val.iot_id

BadCellRead ==
  \E i \in 1..Len(rows_read) : \E k \in 1..Len(rows_read[i].cells) :
    ~IsMissing(rows_read[i].cells[k].value) /\ ~IsNumeric(rows_read[i].cells[k].value)

EndsWith(s_, p) == Len(p) <= Len(s_) /\ SubSeq(s_, Len(s_) - Len(p) + 1, Len(s_)) = p

(***************************************************************************)
(* C4: create-or-get.  Every step keeps each registry entry as it is,      *)
(* keeps the keys of each registry pairwise distinct, registers the key of *)
(* the row (cell) it reads, and creates nothing when that key is already   *)
(* present.                                                                *)
(***************************************************************************)
C4_Step ==
  /\ KeepsEntries(things, things') /\ DistinctKeys(things')
  /\ KeepsEntries(locations, locations') /\ DistinctKeys(locations')
  /\ KeepsEntries(observed_properties, observed_properties')
  /\ DistinctKeys(observed_properties')
  /\ KeepsEntries(sensors, sensors') /\ DistinctKeys(sensors')
  /\ KeepsEntries(datastreams, datastreams') /\ DistinctKeys(datastreams')
  /\ RowStep =>
       /\ dict_has(things', ThingKeyOfRow(LastRowRead))
       /\ dict_has(things, ThingKeyOfRow(LastRowRead)) =>
            things' = things /\ locations' = locations
  /\ (CellStep /\ ~IsMissing(LastCellRead.value)) =>
       LET key == DatastreamKeyOfCell(LastRowRead, LastCellRead.column)
           code == split(LastCellRead.column, " ")[1]
       IN  /\ dict_has(datastreams', key)
           /\ dict_has(datastreams, key) => datastreams' = datastreams
           /\ dict_has(sensors, code) => sensors' = sensors
           /\ dict_has(observed_properties, code) =>
                observed_properties' = observed_properties
           /\ ~dict_has(datastreams, key) =>
                /\ dict_has(sensors', code)
                /\ dict_has(observed_properties', code)

C4_CreateOrGet == [][C4_Step]_vars

C4_Witness ==
  /\ Returned
  /\ Len(rows_read) = 2
  /\ rows_read[1].id = rows_read[2].id
  /\ rows_read[1].sheet_name # rows_read[2].sheet_name
  /\ Len(things) = 1
  /\ Len(datastreams) = 1
  /\ Len(observations) = 2

(***************************************************************************)
(* C5: synthetic identifiers are unique per entity type: no two registered *)
(* Things share an @iot.id and no two registered Locations share one.      *)
(***************************************************************************)
C5_UniqueIds == DistinctIds(things) /\ DistinctIds(locations)

(***************************************************************************)
(* C6: a Datastream is registered after the Sensor and the                 *)
(* ObservedProperty of its measurement code, and embeds exactly those.     *)
(* As claimed, the Sensor always comes before the ObservedProperty.        *)
(***************************************************************************)
IsCreated(i, kind, key) == created[i].kind = kind /\ created[i].key = key

EmbedsOwn(e) ==
  /\ dict_get(datastreams, e.key).Sensor = dict_get(sensors, e.code)
  /\ dict_get(datastreams, e.key).ObservedProperty = dict_get(observed_properties, e.code)

C6_SensorThenPropertyThenDatastream ==
  \A i \in 1..Len(created) :
    created[i].kind = "Datastream" =>
      /\ \E sn, op \in 1..(i - 1) :
           /\ IsCreated(sn, "Sensor", created[i].code)
           /\ IsCreated(op, "ObservedProperty", created[i].code)
           /\ sn < op
      /\ EmbedsOwn(created[i])

(***************************************************************************)
(* C6 as amended: both exist before the Datastream; the Sensor is created  *)
(* first in the customized transform, the ObservedProperty first in the    *)
(* final one; the Datastream embeds the two of the code it was made with.  *)
(***************************************************************************)
C6_BothBeforeDatastream ==
  \A i \in 1..Len(created) :
    created[i].kind = "Datastream" =>
      /\ \E sn, op \in 1..(i - 1) :
           /\ IsCreated(sn, "Sensor", created[i].code)
           /\ IsCreated(op, "ObservedProperty", created[i].code)
           /\ IF variant = "customized" THEN sn < op ELSE op < sn
      /\ EmbedsOwn(created[i])

C6_Witness ==
  /\ variant = "final"
  /\ Len(CreatedOfKind("Datastream")) = 2
  /\ Len(CreatedOfKind("Sensor")) = 1

(***************************************************************************)
(* C7: reading a row whose identifier or timestamp is missing changes no   *)
(* registry and no observation, and the row loop goes on.                  *)
(***************************************************************************)
C7_Step ==
  (RowStep /\ (IsMissing(LastRowRead.id) \/ IsMissing(LastRowRead.ts))) =>
    /\ UNCHANGED <<things, locations, observed_properties, sensors,
                   datastreams, observations>>
    /\ pc' \in {"rows", "sheets"}

C7_MissingRowSkipped == [][C7_Step]_vars

(***************************************************************************)
(* C8: reading a missing measurement cell changes no registry and no       *)
(* observation and moves on to the next column (or row); two rows of one   *)
(* station with a number at T1 and a missing value at T2 in the same       *)
(* column give one Thing, one Datastream and the one Observation of T1.    *)
(***************************************************************************)
C8_Step ==
  (CellStep /\ IsMissing(LastCellRead.value)) =>
    /\ UNCHANGED <<things, locations, observed_properties, sensors,
                   datastreams, observations>>
    /\ IF row.col < Len(sheet.columns)
       THEN pc' = "cols" /\ row'.col = row.col + 1
       ELSE pc' = AfterRow(sheet.rows_left)

C8_ScenarioInput ==
  /\ Len(rows_read) = 2
  /\ ~IsMissing(rows_read[1].id)
  /\ rows_read[1].id = rows_read[2].id
  /\ rows_read[1].ts = Timestamp(1)
  /\ rows_read[2].ts = Timestamp(2)
  /\ \E k \in 1..Len(rows_read[1].cells) : \E m \in 1..Len(rows_read[2].cells) :
       /\ rows_read[1].cells[k].column = rows_read[2].cells[m].column
       /\ rows_read[1].cells[k].value = Float(205)
       /\ \A n \in 1..Len(rows_read[1].cells) : n # k => IsMissing(rows_read[1].cells[n].value)
       /\ \A n \in 1..Len(rows_read[2].cells) : IsMissing(rows_read[2].cells[n].value)

C8_Scenario ==
  (Returned /\ C8_ScenarioInput) =>
    /\ Len(OutThings) = 1
    /\ Len(DatastreamsOf(OutThings[1])) = 1
    /\ ObservationsOf(DatastreamsOf(OutThings[1])[1])
         = <<[phenomenonTime |-> isoformat(Timestamp(1)),
              resultTime |-> isoformat(Timestamp(1)),
              result |-> Float(205)]>>

C8_MissingCellSkipped == [][C8_Step]_vars /\ []C8_Scenario

C8_Witness == Returned /\ C8_ScenarioInput

(***************************************************************************)
(* C9: once a present cell that is no number has been read the run has     *)
(* failed for good and returns nothing; a document exists only when the    *)
(* run is over and every cell read was missing or a number.                *)
(***************************************************************************)
C9_State ==
  /\ BadCellRead => pc = "failed"
  /\ pc = "failed" => result = None
  /\ result # None => Returned /\ sheet = NoSheet /\ row = NoRow /\ ~BadCellRead

C9_FailureReturnsNothing == []C9_State /\ [][pc # "failed"]_vars

C9_Witness ==
  /\ pc = "failed"
  /\ BadCellRead
  /\ Len(observations) > 0
  /\ Len(rows_read) = 2

(***************************************************************************)
(* C10: a measurement code outside the unit mapping gets an                *)
(* ObservedProperty named by the code with a definition ending in /code, a *)
(* Sensor under the code and a Datastream with the Unknown unit; each      *)
(* numeric cell, of a known or unknown code, gives one Observation; the    *)
(* run fails only on a non-numeric cell or a missing timestamp column.     *)
(***************************************************************************)
C10_Emitted(r, cell) ==
  Cardinality({n \in 1..Len(observations) :
     /\ obs_src[n].id_ms = str(r.id)
     /\ obs_src[n].column = cell.column
     /\ obs_src[n].datastream_id
          = dict_get(datastreams, DatastreamKeyOfCell(r, cell.column)).iot_id
     /\ observations[n].phenomenonTime = isoformat(r.ts)
     /\ observations[n].result = float(cell.value)}) = 1

\* the entities a numeric cell of a code outside the unit mapping ends up with
C10_Fallback(r, column) ==
  LET code == split(column, " ")[1]
  IN  code \notin DOMAIN unit_mapping =>
        /\ dict_has(observed_properties, code)
        /\ dict_get(observed_properties, code).name = code
        /\ dict_has(sensors, code)
        /\ dict_get(datastreams, DatastreamKeyOfCell(r, column)).unitOfMeasurement
             = [name |-> <<"Unknown">>, symbol |-> <<>>, definition |-> <<"ucum:">>]

C10_UnknownCodeFallback ==
  /\ \A e \in Range(CreatedOfKind("Datastream")) :
       e.code \notin DOMAIN unit_mapping =>
         /\ dict_has(observed_properties, e.code)
         /\ dict_get(observed_properties, e.code).name = e.code
         /\ EndsWith(dict_get(observed_properties, e.code).definition, <<"/">> \o e.code)
         /\ dict_has(sensors, e.code)
         /\ dict_get(datastreams, e.key).unitOfMeasurement
              = [name |-> <<"Unknown">>, symbol |-> <<>>, definition |-> <<"ucum:">>]
  /\ \A i \in 1..Len(rows_read) : \A k \in 1..Len(rows_read[i].cells) :
       (~IsMissing(rows_read[i].cells[k].value) /\ IsNumeric(rows_read[i].cells[k].value))
         => /\ C10_Emitted(rows_read[i], rows_read[i].cells[k])
            /\ C10_Fallback(rows_read[i], rows_read[i].cells[k].column)
  /\ pc = "failed" =>
       \/ BadCellRead
       \/ /\ variant = "customized"
          /\ timestamp_column_of(sheets_read[Len(sheets_read)].sheet_name)
               \notin Range(sheets_read[Len(sheets_read)].columns)

C10_Witness ==
  /\ Returned
  /\ \E e \in Range(CreatedOfKind("Datastream")) : e.code = FOO
  /\ \E n \in 1..Len(obs_src) : obs_src[n].column = FOO
  /\ \E n \in 1..Len(obs_src) : obs_src[n].column = TEMP_C

(***************************************************************************)
(* The call of construct_nested_structure of the normalized converter, as  *)
(* a step: the collections before it are the ones handed in.               *)
(***************************************************************************)
NestStep == variant = "normalized" /\ pc = "nest" /\ pc' = "done"

HasId(entity, id) == "iot_id" \in DOMAIN entity /\ entity.iot_id = id

\* the Datastreams handed in that name the Thing with this id, in order
HandedInFor(thing_id) ==
  SelectSeq(datastreams, LAMBDA ds : "Thing" \in DOMAIN ds /\ HasId(ds.Thing, thing_id))

\* the first entity of the collection that carries this id
FirstWithId(collection, id) ==
  collection[CHOOSE k \in 1..Len(collection) :
               /\ HasId(collection[k], id)
               /\ \A j \in 1..(k - 1) : ~HasId(collection[j], id)]

ResolvedAs(before, after, key, collection) ==
  key \in DOMAIN before =>
    /\ key \in DOMAIN after
    /\ IF \E k \in 1..Len(collection) : HasId(collection[k], before[key].iot_id)
       THEN after[key] = FirstWithId(collection, before[key].iot_id)
       ELSE after[key] = [iot_id |-> before[key].iot_id]

(***************************************************************************)
(* C11: construct_nested_structure of the normalized converter replaces    *)
(* the Sensor / ObservedProperty reference of every Datastream attached to *)
(* a Thing by the first entity of the target collection with that id, and  *)
(* leaves a reference that matches nothing as the fragment with the id;    *)
(* the call always returns.                                                *)
(***************************************************************************)
C11_Step ==
  NestStep =>
    \A i \in 1..Len(result'.Things) :
      LET before == HandedInFor(result'.Things[i].iot_id)
          after == DatastreamsOf(result'.Things[i])
      IN  /\ Len(after) = Len(before)
          /\ \A j \in 1..Len(before) :
               /\ ResolvedAs(before[j], after[j], "Sensor", sensors)
               /\ ResolvedAs(before[j], after[j], "ObservedProperty", observed_properties)

C11_Returns == (variant = "normalized" /\ pc = "nest") => ENABLED Nest

C11_FirstMatchOrRawFragment == [][C11_Step]_vars /\ []C11_Returns

C11_Witness ==
  /\ variant = "normalized"
  /\ Returned
  /\ sensors = <<Entity(1, "S1"), Entity(1, "S2")>>
  /\ Len(OutThings) = 2
  /\ DatastreamsOf(OutThings[2]) # <<>>
  /\ DatastreamsOf(OutThings[2])[1].Sensor = Entity(1, "S1")
  /\ DatastreamsOf(OutThings[2])[1].ObservedProperty = Ref(9)

(***************************************************************************)
(* The tables of the workbook, read as the claims read them: the n-th row  *)
(* of a table is the entity with id n, as for Things.                      *)
(***************************************************************************)
FromWorkbook == variant = "normalized" /\ excel_data # None

\* the foreign key names an existing row of the table
NamesRow(r, column, sheet_name) ==
  /\ column \in DOMAIN r
  /\ ~IsMissing(r[column])
  /\ r[column].n \in 1..Len(rows_of(sheet_name))

\* the Datastreams rows (by position) that name the i-th Things row, in order
DatastreamRowsOf(i) ==
  SelectSeq([k \in 1..Len(rows_of("Datastreams")) |-> k],
            LAMBDA k : /\ "thing_id" \in DOMAIN rows_of("Datastreams")[k]
                       /\ rows_of("Datastreams")[k].thing_id = Num(i))

\* the results of the Observations rows that name the k-th Datastreams row
ObservationRowsOf(k) ==
  SelectSeq(rows_of("Observations"),
            LAMBDA r : NamesRow(r, "datastream_id", "Datastreams") /\ r.datastream_id = Num(k))

(***************************************************************************)
(* C12: in the document excel_to_sensorthings of the normalized converter  *)
(* returns, the Datastream of a row whose sensor_id / observed_property_id *)
(* names an existing row embeds that entity in full, and the Observations  *)
(* listed under a Datastream are exactly those of the rows naming it.      *)
(***************************************************************************)
C12_ReferencesEmbedded ==
  (Returned /\ FromWorkbook) =>
    \A i \in 1..Len(OutThings) :
      /\ Len(DatastreamsOf(OutThings[i])) = Len(DatastreamRowsOf(i))
      /\ \A j \in 1..Len(DatastreamRowsOf(i)) :
           LET k == DatastreamRowsOf(i)[j]
               r == rows_of("Datastreams")[k]
               out == DatastreamsOf(OutThings[i])[j]
           IN  /\ NamesRow(r, "sensor_id", "Sensors") =>
                    out.Sensor = sensors[r.sensor_id.n]
               /\ NamesRow(r, "observed_property_id", "ObservedProperties") =>
                    out.ObservedProperty = observed_properties[r.observed_property_id.n]
               /\ Len(ObservationsOf(out)) = Len(ObservationRowsOf(k))
               /\ \A n \in 1..Len(ObservationRowsOf(k)) :
                    ObservationsOf(out)[n].result = ObservationRowsOf(k)[n].result

(***************************************************************************)
(* C13: determinism.  A second run of the transform on the same workbook   *)
(* returns the document the first run returned: the same @iot.id values,   *)
(* field values, nesting and order.                                        *)
(***************************************************************************)
C13_Deterministic ==
  (Returned /\ first_output # None) => result = first_output

(***************************************************************************)
(* The observations the row/column scan of the wide sheets produces, in    *)
(* scan order: one per numeric cell of a row that has a timestamp.         *)
(***************************************************************************)
ScannedOfRow(r) ==
  IF IsMissing(r.ts) THEN <<>>
  ELSE LET numeric == SelectSeq(r.cells, LAMBDA c : ~IsMissing(c.value) /\ IsNumeric(c.value))
       IN  [k \in 1..Len(numeric) |->
              [phenomenonTime |-> isoformat(r.ts), resultTime |-> isoformat(r.ts),
               result |-> float(numeric[k].value)]]

RECURSIVE ScannedUpTo(_)
ScannedUpTo(n) ==
  IF n = 0 THEN <<>> ELSE ScannedUpTo(n - 1) \o ScannedOfRow(rows_read[n])

Scanned == ScannedUpTo(Len(rows_read))

\* a can be had from b by leaving elements out
RECURSIVE IsSubsequence(_, _)
IsSubsequence(a, b) ==
  IF a = <<>> THEN TRUE
  ELSE IF b = <<>> THEN FALSE
  ELSE IF Head(a) = Head(b) THEN IsSubsequence(Tail(a), Tail(b))
  ELSE IsSubsequence(a, Tail(b))

\* the position of the registration of this key in the insertion history
CreatedAt(kind, key) == CHOOSE n \in 1..Len(created) : IsCreated(n, kind, key)

KeyOfDatastream(iot_id) ==
  datastreams[CHOOSE k \in 1..Len(datastreams) : datastreams[k].val.iot_id = iot_id].key

(***************************************************************************)
(* C14: in the document of a wide-shape transform the Things are in the    *)
(* order their keys were first registered, the Datastreams of a Thing in   *)
(* the order they were first registered, and the Observations of a         *)
(* Datastream in the order the scan produced them.                         *)
(***************************************************************************)
C14_OutputOrder ==
  (Returned /\ variant \in {"customized", "final"}) =>
    /\ Len(OutThings) = Len(CreatedOfKind("Thing"))
    /\ \A i \in 1..Len(OutThings) :
         /\ OutThings[i].iot_id = dict_get(things, CreatedOfKind("Thing")[i].key).iot_id
         /\ \A j1, j2 \in 1..Len(DatastreamsOf(OutThings[i])) :
              j1 < j2 =>
                CreatedAt("Datastream", KeyOfDatastream(DatastreamsOf(OutThings[i])[j1].iot_id))
                  < CreatedAt("Datastream", KeyOfDatastream(DatastreamsOf(OutThings[i])[j2].iot_id))
         /\ \A j \in 1..Len(DatastreamsOf(OutThings[i])) :
              IsSubsequence(ObservationsOf(DatastreamsOf(OutThings[i])[j]), Scanned)

C14_Witness ==
  /\ Returned
  /\ variant = "final"
  /\ \E i \in 1..Len(OutThings) :
       /\ Len(DatastreamsOf(OutThings[i])) = 2
       /\ \E j \in 1..2 :
            /\ Len(ObservationsOf(DatastreamsOf(OutThings[i])[j])) = 2
            /\ ObservationsOf(DatastreamsOf(OutThings[i])[j])[1].phenomenonTime
                 # ObservationsOf(DatastreamsOf(OutThings[i])[j])[2].phenomenonTime

(***************************************************************************)
(* What belongs to a Thing of the document, by the registrations of the    *)
(* wide transforms and by the foreign keys of the normalized tables.       *)
(***************************************************************************)
\* the Location entries of this Thing
OwnLocations(i) ==
  IF variant = "normalized"
  THEN SelectSeq(locations,
                 LAMBDA loc : "Thing" \in DOMAIN loc /\ loc.Thing.iot_id = OutThings[i].iot_id)
  ELSE IF dict_has(locations, OutThings[i].iot_id)
       THEN <<dict_get(locations, OutThings[i].iot_id)>>
       ELSE <<>>

\* whether any Datastream was registered for (names) this Thing
HasOwnDatastream(i) ==
  IF variant = "normalized"
  THEN DatastreamRowsOf(i) # <<>>
  ELSE \E e \in Range(CreatedOfKind("Datastream")) : e.owner = OutThings[i].iot_id

\* whether any Observation was made for (names) the j-th Datastream listed
HasOwnObservation(i, j) ==
  IF variant = "normalized"
  THEN j <= Len(DatastreamRowsOf(i)) /\ ObservationRowsOf(DatastreamRowsOf(i)[j]) # <<>>
  ELSE CreatedFor(DatastreamsOf(OutThings[i])[j].iot_id) # <<>>

(***************************************************************************)
(* C15: in the document of each of the three transforms a Thing's          *)
(* Locations key is absent or a list of exactly one Location, the one of   *)
(* this Thing; its Datastreams key is absent exactly when it has no        *)
(* Datastream; a Datastream's Observations key is absent exactly when it   *)
(* has no Observation.                                                     *)
(***************************************************************************)
C15_OptionalKeys ==
  (Returned /\ (variant = "normalized" => FromWorkbook)) =>
    \A i \in 1..Len(OutThings) :
      /\ "Locations" \in DOMAIN OutThings[i] =>
           /\ Len(OutThings[i].Locations) = 1
           /\ OutThings[i].Locations = OwnLocations(i)
      /\ "Datastreams" \notin DOMAIN OutThings[i] <=> ~HasOwnDatastream(i)
      /\ \A j \in 1..Len(DatastreamsOf(OutThings[i])) :
           "Observations" \notin DOMAIN DatastreamsOf(OutThings[i])[j]
             <=> ~HasOwnObservation(i, j)

(***************************************************************************)
(* C16: entities are fixed at first registration.  A registered Thing has  *)
(* the id, name, description and properties computed from the first row    *)
(* read with its key (the category being that of the row's sheet), and no  *)
(* step changes a field of a registered Thing, Location, Sensor,           *)
(* ObservedProperty or Datastream.                                         *)
(***************************************************************************)
FirstRowWithKey(key) ==
  rows_read[CHOOSE n \in 1..Len(rows_read) :
              /\ ThingKeyOfRow(rows_read[n]) = key
              /\ \A m \in 1..(n - 1) : ThingKeyOfRow(rows_read[m]) # key]

AsFirstRegistered(e) ==
  LET r == FirstRowWithKey(e.key)
  IN  /\ e.val.iot_id = <<"t", "h", "i", "n", "g", "_">> \o e.key
      /\ e.val.properties.id_ms = str(r.id)
      /\ e.val.properties.category = category_of(r.sheet_name)
      /\ Head(e.val.description) = Head(category_of(r.sheet_name))
      /\ EndsWith(e.val.name, str(r.id))
      /\ EndsWith(e.val.description, str(r.id))

SameFields(d, dn) == \A k \in 1..Len(d) : dict_has(dn, d[k].key) /\ dict_get(dn, d[k].key) = d[k].val

C16_Frame ==
  /\ SameFields(things, things')
  /\ SameFields(locations, locations')
  /\ SameFields(sensors, sensors')
  /\ SameFields(observed_properties, observed_properties')
  /\ SameFields(datastreams, datastreams')

C16_FixedAtFirstRegistration ==
  /\ [](\A k \in 1..Len(things) : AsFirstRegistered(things[k]))
  /\ [][C16_Frame]_vars

C16_Witness ==
  /\ Len(rows_read) = 2
  /\ rows_read[1].id = rows_read[2].id
  /\ ~IsMissing(rows_read[1].id)
  /\ category_of(rows_read[1].sheet_name) # category_of(rows_read[2].sheet_name)
  /\ Len(things) = 1
  /\ things[1].val.properties.category = category_of(rows_read[1].sheet_name)

(***************************************************************************)
(* C17: the measurement code of a column is its header up to the first     *)
(* space, the whole header when it has none; every Observation is          *)
(* attributed to the Datastream registered for the station of its row and  *)
(* that code, which embeds the Sensor and ObservedProperty of the code, so *)
(* columns with the same leading token share them.                         *)
(***************************************************************************)
LeadingToken(header) ==
  IF \E k \in 1..Len(header) : header[k] = " "
  THEN SubSeq(header, 1, (CHOOSE k \in 1..Len(header) :
                            header[k] = " " /\ \A j \in 1..(k - 1) : header[j] # " ") - 1)
  ELSE header

DatastreamWithId(iot_id) ==
  datastreams[CHOOSE k \in 1..Len(datastreams) : datastreams[k].val.iot_id = iot_id]

C17_CodeIsLeadingToken ==
  /\ \A n \in 1..Len(obs_src) :
       LET code == LeadingToken(obs_src[n].column)
           d == DatastreamWithId(obs_src[n].datastream_id)
       IN  /\ \E k \in 1..Len(datastreams) : datastreams[k].val.iot_id = obs_src[n].datastream_id
           /\ \E e \in Range(CreatedOfKind("Datastream")) : e.key = d.key /\ e.code = code
           /\ d.val.Sensor.iot_id = <<"s", "e", "n", "s", "o", "r", "_">> \o code
           /\ d.val.ObservedProperty.iot_id = <<"o", "p", "_">> \o code
           /\ dict_has(sensors, code) /\ d.val.Sensor = dict_get(sensors, code)
           /\ dict_has(observed_properties, code)
           /\ d.val.ObservedProperty = dict_get(observed_properties, code)
  /\ \A n, m \in 1..Len(obs_src) :
       (/\ LeadingToken(obs_src[n].column) = LeadingToken(obs_src[m].column)
        /\ obs_src[n].id_ms = obs_src[m].id_ms)
         => obs_src[n].datastream_id = obs_src[m].datastream_id

C17_Witness ==
  /\ Len(obs_src) = 2
  /\ obs_src[1].column = TEMP_C
  /\ obs_src[2].column = TEMP
  /\ obs_src[1].id_ms = obs_src[2].id_ms
  /\ Len(datastreams) = 1
  /\ Len(sensors) = 1

(***************************************************************************)
(* The numeric cells read so far with the timestamp of their row, in scan  *)
(* order, and the ISO-8601 text of a timestamp.                            *)
(***************************************************************************)
NumericCellsOfRow(r) ==
  IF IsMissing(r.ts) THEN <<>>
  ELSE LET numeric == SelectSeq(r.cells, LAMBDA c : ~IsMissing(c.value) /\ IsNumeric(c.value))
       IN  [k \in 1..Len(numeric) |-> [ts |-> r.ts, value |-> numeric[k].value]]

RECURSIVE NumericCellsUpTo(_)
NumericCellsUpTo(n) ==
  IF n = 0 THEN <<>> ELSE NumericCellsUpTo(n - 1) \o NumericCellsOfRow(rows_read[n])

NumericCells == NumericCellsUpTo(Len(rows_read))

Iso8601(ts) ==
  [kind |-> "str",
   s |-> <<"2024-05-01T0", <<"0", "1", "2", "3", "4", "5", "6", "7", "8", "9">>[ts.t + 1], ":00:00">>]

AllOutObservations ==
  UNION {UNION {Range(ObservationsOf(DatastreamsOf(OutThings[i])[j])) :
                  j \in 1..Len(DatastreamsOf(OutThings[i]))} : i \in 1..Len(OutThings)}

(***************************************************************************)
(* C18: every Observation of a wide-shape transform has phenomenonTime     *)
(* equal to resultTime, both the ISO-8601 text of the timestamp of the row *)
(* its value was read from, and as result the floating-point value of the  *)
(* cell; the document lists Observations with these fields only.           *)
(***************************************************************************)
C18_ObservationFields ==
  /\ Len(observations) = Len(NumericCells)
  /\ \A n \in 1..Len(observations) :
       /\ observations[n].phenomenonTime = observations[n].resultTime
       /\ observations[n].phenomenonTime = Iso8601(NumericCells[n].ts)
       /\ observations[n].result.kind = "float"
       /\ observations[n].result.tenths = NumericCells[n].value.tenths
  /\ (Returned /\ variant \in {"customized", "final"}) =>
       \A o \in AllOutObservations :
         \E n \in 1..Len(observations) :
           o = [phenomenonTime |-> Iso8601(NumericCells[n].ts),
                resultTime |-> Iso8601(NumericCells[n].ts),
                result |-> [kind |-> "float", tenths |-> NumericCells[n].value.tenths]]

C18_Witness ==
  /\ Returned
  /\ Len(observations) = 2
  /\ observations[1].phenomenonTime # observations[2].phenomenonTime
  /\ Cardinality(AllOutObservations) = 2

(***************************************************************************)
(* C19: the unitOfMeasurement of a Datastream is a function of its         *)
(* measurement code alone: the static entry of a known code (TEMP: Degree  *)
(* Celsius, °C, ucum:Cel), and for an unknown code, as claimed, the        *)
(* code itself as name with symbol '' and definition 'ucum:'.              *)
(***************************************************************************)
UnitOf(e) == dict_get(datastreams, e.key).unitOfMeasurement

C19_KnownAndPure ==
  /\ \A e \in Range(CreatedOfKind("Datastream")) :
       /\ e.code \in DOMAIN unit_mapping => UnitOf(e) = unit_mapping[e.code]
       /\ e.code = TEMP =>
            UnitOf(e) = [name |-> <<"Degree Celsius">>, symbol |-> <<"°C">>,
                         definition |-> <<"ucum:Cel">>]
  /\ \A e1, e2 \in Range(CreatedOfKind("Datastream")) :
       e1.code = e2.code => UnitOf(e1) = UnitOf(e2)

C19_UnknownNamedByCode ==
  /\ C19_KnownAndPure
  /\ \A e \in Range(CreatedOfKind("Datastream")) :
       e.code \notin DOMAIN unit_mapping =>
         UnitOf(e) = [name |-> e.code, symbol |-> <<>>, definition |-> <<"ucum:">>]

(***************************************************************************)
(* C19 as amended: an unknown code returns the fixed entry named           *)
(* "Unknown", with symbol '' and definition 'ucum:'.                       *)
(***************************************************************************)
C19_UnknownNamedUnknown ==
  /\ C19_KnownAndPure
  /\ \A e \in Range(CreatedOfKind("Datastream")) :
       e.code \notin DOMAIN unit_mapping =>
         /\ UnitOf(e).name = <<"Unknown">>
         /\ UnitOf(e).symbol = <<>>
         /\ UnitOf(e).definition = <<"ucum:">>
         /\ DOMAIN UnitOf(e) = {"name", "symbol", "definition"}

C19_Witness ==
  /\ Len(CreatedOfKind("Datastream")) = 3
  /\ \E e \in Range(CreatedOfKind("Datastream")) : e.code = FOO
  /\ \E e1, e2 \in Range(CreatedOfKind("Datastream")) :
       e1.code = TEMP /\ e2.code = TEMP /\ e1.owner # e2.owner

(***************************************************************************)
(* C20: assembling the nested document modifies no entity: over the step   *)
(* in which a transform (or construct_nested_structure on collections      *)
(* handed in) builds and returns the document, every entity of the         *)
(* registries / collections keeps its fields and values.                   *)
(***************************************************************************)
AssembleStep == pc # "done" /\ pc' = "done"

C20_Step ==
  AssembleStep =>
    UNCHANGED <<things, locations, sensors, observed_properties, datastreams,
                observations>>

C20_AssemblyModifiesNothing == [][C20_Step]_vars

(***************************************************************************)
(* The Thing id a station identifier is registered under.                  *)
(***************************************************************************)
ThingIdOfStation(id_ms) ==
  <<"t", "h", "i", "n", "g", "_">> \o
    (IF variant = "customized" THEN id_ms
     ELSE thing_key_of(hms_info_of(id_ms), id_ms))

CellsRead ==
  UNION {{<<i, k>> : k \in {n \in 1..Len(rows_read[i].cells) :
                               /\ ~IsMissing(rows_read[i].cells[n].value)
                               /\ IsNumeric(rows_read[i].cells[n].value)}} :
         i \in 1..Len(rows_read)}

ObservationOfCell(c) ==
  [phenomenonTime |-> isoformat(rows_read[c[1]].ts),
   resultTime |-> isoformat(rows_read[c[1]].ts),
   result |-> float(rows_read[c[1]].cells[c[2]].value)]

KeyOfCell(c) == DatastreamKeyOfCell(rows_read[c[1]], rows_read[c[1]].cells[c[2]].column)

ObservationsDue(key, o) ==
  Cardinality({c \in CellsRead :
                 /\ ObservationOfCell(c) = o
                 /\ variant = "final" => KeyOfCell(c) = key})

ObservationsListed(datastream, o) ==
  Cardinality({n \in 1..Len(ObservationsOf(datastream)) :
                 PlainObservation(ObservationsOf(datastream)[n]) = o})

\* a row the run cannot get past
FailingRow(r) ==
  \/ \E k \in 1..Len(r.cells) :
       ~IsMissing(r.cells[k].value) /\ ~IsNumeric(r.cells[k].value)
  \/ /\ variant = "customized"
     /\ \E s \in Range(sheets_read) :
          /\ s.sheet_name = r.sheet_name
          /\ timestamp_column_of(s.sheet_name) \notin Range(s.columns)

(***************************************************************************)
(* C22: the document of a wide-shape transform depends on the rows of the  *)
(* sheets only as a collection, not on the order the sheets are processed  *)
(* in: the Thing ids are the ids of the stations of the rows, the          *)
(* Datastream ids under a Thing are those of the keys of the numeric cells *)
(* that the assembler matches to it, each Observation is listed under a    *)
(* Datastream as often as the cells produce it, and the run fails exactly  *)
(* when some row cannot be read.  Equal keys collapse to one entity.       *)
(***************************************************************************)
C22_SheetOrderIndependent ==
  /\ Returned =>
       /\ \A r \in Range(rows_read) : ~FailingRow(r)
       /\ {OutThings[i].iot_id : i \in 1..Len(OutThings)}
            = {ThingIdOfStation(str(r.id)) : r \in Range(rows_read)}
       /\ DistinctIds([i \in 1..Len(OutThings) |-> [val |-> OutThings[i]]])
       /\ \A i \in 1..Len(OutThings) :
            LET listed == DatastreamsOf(OutThings[i])
            IN  /\ {d.iot_id : d \in Range(listed)}
                     = {<<"d", "s", "_">> \o KeyOfCell(c) :
                          c \in {x \in CellsRead :
                                   startswith(KeyOfCell(x), OutThings[i].iot_id)}}
                /\ DistinctIds([j \in 1..Len(listed) |-> [val |-> listed[j]]])
                /\ \A d \in Range(listed) :
                     \A o \in {ObservationOfCell(c) : c \in CellsRead}
                                \cup {PlainObservation(x) : x \in Range(ObservationsOf(d))} :
                       ObservationsListed(d, o)
                         = ObservationsDue(SubSeq(d.iot_id, 4, Len(d.iot_id)), o)
  /\ pc = "failed" => FailingRow(rows_read[Len(rows_read)])

C22_Witness ==
  /\ Returned
  /\ Len(sheets_read) = 2
  /\ sheets_read[1].sheet_name = KLIMA
  /\ sheets_read[2].sheet_name = FREIFLAECHE
  /\ Len(rows_read) = 2
  /\ rows_read[1].id = rows_read[2].id
  /\ rows_read[1].sheet_name # rows_read[2].sheet_name
  /\ Len(OutThings) = 1
  /\ Len(DatastreamsOf(OutThings[1])) = 1
  /\ Len(ObservationsOf(DatastreamsOf(OutThings[1])[1])) = 2

(***************************************************************************)
(* The legend entry of a station code as the legend sheet gives it: the    *)
(* last legend row of that code, Unknown and no remark without one.        *)
(***************************************************************************)
LegendRowsOf(id_ms) ==
  IF legend_df = NoSheet \/ ~({"HMS", "ID_MS"} \subseteq legend_df.columns) THEN <<>>
  ELSE SelectSeq(legend_df.rows, LAMBDA r : str(r.ID_MS) = id_ms)

Triple(r) ==
  LET id_ms == str(r.id)
      entries == LegendRowsOf(id_ms)
      entry == entries[Len(entries)]
  IN  IF entries = <<>> THEN [label |-> UNKNOWN, remark |-> <<>>, code |-> id_ms]
      ELSE [label |-> IF IsMissing(entry.HMS) THEN UNKNOWN ELSE str(entry.HMS),
            remark |-> IF "Bemerkung" \notin legend_df.columns \/ IsMissing(entry.Bemerkung)
                       THEN <<>> ELSE str(entry.Bemerkung),
            code |-> id_ms]

ThingOfRow(r) == dict_get(things, ThingKeyOfRow(r))

(***************************************************************************)
(* C23: in the final transform the Thing of a row is registered under its  *)
(* triple of site label, remark and station code as the legend gives them  *)
(* (Unknown and no remark without a usable legend entry); rows of one      *)
(* station code have the same Thing, and rows with different triples have  *)
(* different Things.                                                       *)
(***************************************************************************)
C23_ThingKeyIsTriple ==
  variant = "final" =>
    /\ \A r \in Range(rows_read) :
         /\ ThingKeyOfRow(r)
              = Triple(r).label \o <<"_">> \o Triple(r).remark \o <<"_">> \o Triple(r).code
         /\ dict_has(things, ThingKeyOfRow(r))
    /\ \A r1, r2 \in Range(rows_read) :
         /\ str(r1.id) = str(r2.id) => ThingOfRow(r1) = ThingOfRow(r2)
         /\ Triple(r1) # Triple(r2) => ThingOfRow(r1) # ThingOfRow(r2)

(***************************************************************************)
(* The table of sheet roles, and the sheet a row was read from.            *)
(***************************************************************************)
ExpectedCategory(sheet_name) ==
  IF sheet_name = FREIFLAECHE THEN <<"Weather Station">>
  ELSE IF \E i \in 1..Len(sheet_name) :
            \/ IsAt(sheet_name, <<"B", "o", "d", "e", "n">>, i)
            \/ IsAt(sheet_name, <<"T", "e", "n", "s", "i", "o", "n">>, i)
       THEN <<"Soil Sensor">>
       ELSE <<"Generic Sensor">>

ExpectedTimestampColumn(sheet_name) ==
  CASE sheet_name = FREIFLAECHE -> DATUM_ZEIT
    [] sheet_name = BODEN_LUFTTEMP -> DATUMZEIT
    [] OTHER -> DATUM

SheetOfRow(r) == CHOOSE s \in Range(sheets_read) : s.sheet_name = r.sheet_name

IsUnnamed(column) ==
  Len(column) >= 7 /\ SubSeq(column, 1, 7) = <<"U", "n", "n", "a", "m", "e", "d">>

\* the step that meets the legend sheet in the sheet loop
LegendStep ==
  /\ Len(sheets_read') = Len(sheets_read) + 1
  /\ sheets_read'[Len(sheets_read')].sheet_name = LEGENDE

C24_Roles ==
  /\ id_column = ID_MS
  /\ sheet # NoSheet =>
       /\ sheet.category = ExpectedCategory(sheet.sheet_name)
       /\ sheet.timestamp_column = ExpectedTimestampColumn(sheet.sheet_name)
  /\ \A r \in Range(rows_read) :
       /\ r.sheet_name # LEGENDE
       /\ \/ ExpectedTimestampColumn(r.sheet_name) \in Range(SheetOfRow(r).columns)
          \/ variant = "customized" /\ pc = "failed" /\ r.cells = <<>>
       /\ \A k \in 1..Len(r.cells) :
            /\ r.cells[k].column \notin {ID_MS, ExpectedTimestampColumn(r.sheet_name)}
            /\ ~IsUnnamed(r.cells[k].column)
  /\ \A n \in 1..Len(obs_src) :
       \E r \in Range(rows_read) : \E k \in 1..Len(r.cells) :
         obs_src[n].column = r.cells[k].column /\ obs_src[n].id_ms = str(r.id)
  /\ \A e \in Range(CreatedOfKind("Datastream")) :
       \E r \in Range(rows_read) : \E k \in 1..Len(r.cells) :
         e.code = LeadingToken(r.cells[k].column)
  /\ \A k \in 1..Len(things) :
       things[k].val.properties.category
         = ExpectedCategory(FirstRowWithKey(things[k].key).sheet_name)

(***************************************************************************)
(* C24: the roles of a sheet follow the fixed table.  The sheet LEGENDE    *)
(* adds no entity and no Observation; the timestamp column is DATUM_ZEIT   *)
(* for FREIFLÄCHE, DATUMZEIT for Boden+Lufttemp_Bestand C° and DATUM for   *)
(* every other sheet; the category is Weather Station for FREIFLÄCHE, Soil *)
(* Sensor for a name with Boden or Tension and Generic Sensor otherwise;   *)
(* the identifier column is ID_MS; and the identifier, timestamp and       *)
(* Unnamed columns give no Datastream and no Observation.                  *)
(***************************************************************************)
C24_SheetRoles ==
  /\ []C24_Roles
  /\ [][LegendStep =>
          UNCHANGED <<rows_read, things, locations, observed_properties, sensors,
                      datastreams, observations, created, obs_src>>]_vars

C24_Witness ==
  /\ Returned
  /\ \E s \in Range(sheets_read) : s.sheet_name = LEGENDE
  /\ \E s \in Range(sheets_read) : s.sheet_name = BODEN_LUFTTEMP /\ UNNAMED_2 \in Range(s.columns)
  /\ Len(observations) = 2
  /\ Len(datastreams) = 1
  /\ \A k \in 1..Len(things) : things[k].val.properties.category = <<"Soil Sensor">>

(***************************************************************************)
(* An entity handed in that names the Thing with this id, and a Datastream *)
(* without the parts the call embeds in it.                                *)
(***************************************************************************)
NamesThing(entity, thing_id) == "Thing" \in DOMAIN entity /\ HasId(entity.Thing, thing_id)

Core(ds) == [f \in DOMAIN ds \ {"Sensor", "ObservedProperty", "Observations"} |-> ds[f]]

LocationsListed(thing) == IF "Locations" \in DOMAIN thing THEN thing.Locations ELSE <<>>

C25_Step ==
  NestStep =>
    LET out == result'.Things
    IN  /\ Len(out) = Len(things)
        /\ \A i \in 1..Len(out) :
             /\ out[i].iot_id = IF "iot_id" \in DOMAIN things[i] THEN things[i].iot_id
                                ELSE Num(i)
             /\ LocationsListed(out[i])
                  = SelectSeq(locations, LAMBDA loc : NamesThing(loc, out[i].iot_id))
             /\ LET handed_in == SelectSeq(datastreams,
                                           LAMBDA ds : NamesThing(ds, out[i].iot_id))
                    listed == DatastreamsOf(out[i])
                IN  /\ Len(listed) = Len(handed_in)
                    /\ \A j \in 1..Len(listed) : Core(listed[j]) = Core(handed_in[j])
        /\ \A i, j \in 1..Len(out) : i # j => out[i].iot_id # out[j].iot_id
        /\ \A k \in 1..Len(datastreams) :
             (\A i \in 1..Len(out) : ~NamesThing(datastreams[k], out[i].iot_id)) =>
               \A i \in 1..Len(out) : \A d \in Range(DatastreamsOf(out[i])) :
                 Core(d) # Core(datastreams[k])

(***************************************************************************)
(* C25: construct_nested_structure of the normalized converter gives a     *)
(* Thing without @iot.id its 1-based position as id, so that the ids of    *)
(* the Things of the document are pairwise distinct; it lists a Location   *)
(* and a Datastream under the Thing whose id its Thing reference names,    *)
(* and a Datastream that names no Thing, or an id no Thing has, is listed  *)
(* nowhere.                                                                *)
(***************************************************************************)
C25_PositionalThingIds == [][C25_Step]_vars

====
